---- MODULE Spec2Model ----
(***************************************************************************)
(* The name-registry state engine of blockstack/blockstore: the per-block  *)
(* pipeline  parse -> check -> commit -> expire -> snapshot -> save  and   *)
(* the check functions of NAME_PREORDER, NAME_TRANSFER, NAMESPACE_REVEAL   *)
(* and NAMESPACE_READY.                                                    *)
(*                                                                         *)
(* Operations are Python dicts in the source; here they are functions from *)
(* field names to values, so that "'op_fee' in nameop" is                  *)
(* "op_fee" \in DOMAIN nameop  and  "del nameop[k]"  is Del(nameop, k).     *)
(*                                                                         *)
(* Amounts are counted in units of 10^4 satoshi (TLC integers are 32 bit   *)
(* and NAMESPACE_1_CHAR_COST is 4 * 10^10 satoshi).                        *)
(***************************************************************************)
EXTENDS Integers, Sequences, FiniteSets, TLC

VARIABLES
    testset,              \* blockstack_opts['testset'], fixed for a run
    block,                \* the block being processed (lastblock + 1)
    phase,                \* position of the driver inside the block
    vtx,                  \* vtxindex of the last transaction of the block
    txs,                  \* the block's transactions, by vtxindex
    ops,                  \* operations parsed from the block (virtualchain_all_ops)
    queue,                \* the block's operations in processing order
    checked_ops,          \* operations accepted by db_check (pending_ops)
    ci,                   \* number of accepted operations already committed
    stream,               \* records fed to db_serialize for this block
    name_records,         \* name table: name -> record
    preorders,            \* pending name preorders
    namespace_preorders,  \* pending namespace preorders
    namespaces,           \* namespace table: namespace_id -> record
    consensus_hashes,     \* consensus-hash ring: block -> hash
    saved,                \* what db_save last wrote to stable storage
    calls,                \* calls answered so far, each with what it returned
    pidfile,              \* the supervisor's PID file: {} when there is none
    indexing,             \* the indexing lock file exists
    proc,                 \* the daemon processes: where each is, how it ended
    outage,               \* polls for which bitcoind stays out of reach
    tip,                  \* the last block bitcoind knows about
    rebuild,              \* rebuild_database and verify_database: arguments and locals
    stop                  \* a `blockstackd stop` between its two signals

\* the daemon's processes and files, and the chain they follow
server_vars == << pidfile, indexing, proc, outage, tip >>

\* the state the block pipeline never writes
host_vars == << testset, calls, server_vars, rebuild, stop >>

\* the state of the block pipeline
engine_vars == << block, phase, vtx, txs, ops, queue, checked_ops, ci, stream,
                 name_records, preorders, namespace_preorders, namespaces,
                 consensus_hashes, saved >>

vars == << host_vars, block, phase, vtx, txs, ops, queue, checked_ops, ci, stream,
           name_records, preorders, namespace_preorders, namespaces,
           consensus_hashes, saved >>

db_vars == << name_records, preorders, namespace_preorders, namespaces >>

----------------------------------------------------------------------------
(* Bounds of the model *)

MaxBlocks == 3        \* blocks processed in a run
MaxTxs    == 2        \* transactions carrying an operation in one block

----------------------------------------------------------------------------
(* config.py *)

None == "None"

BLOCKSTACK_VERSION == 1
BLOCKS_PER_DAY  == 144
BLOCKS_PER_YEAR == 52595
NAME_PREORDER_EXPIRE      == BLOCKS_PER_DAY
NAMESPACE_PREORDER_EXPIRE == BLOCKS_PER_DAY
NAMESPACE_REVEAL_EXPIRE   == BLOCKS_PER_YEAR
MAX_NAMES_PER_SENDER == 25

NAME_PREORDER      == "?"
NAME_REGISTRATION  == ":"
NAME_UPDATE        == "+"
NAME_TRANSFER      == ">"
NAME_REVOKE        == "~"
NAME_IMPORT        == ";"
NAMESPACE_PREORDER == "*"
NAMESPACE_REVEAL   == "&"
NAMESPACE_READY    == "!"
ANNOUNCE           == "#"

TRANSFER_KEEP_DATA   == ">"
TRANSFER_REMOVE_DATA == "~"

\* the list with NAME_TRANSFER moved to the front
OPCODES_transfer_first ==
    << NAME_TRANSFER, NAME_PREORDER, NAME_REVOKE, NAME_REGISTRATION, NAME_UPDATE,
       NAME_IMPORT, NAMESPACE_PREORDER, NAMESPACE_REVEAL, NAMESPACE_READY, ANNOUNCE >>

OPCODES == << NAME_PREORDER, NAME_REVOKE, NAME_REGISTRATION, NAME_UPDATE,
              NAME_TRANSFER, NAME_IMPORT, NAMESPACE_PREORDER, NAMESPACE_REVEAL,
              NAMESPACE_READY, ANNOUNCE >>

\* 10**8 satoshi, in units of 10^4 satoshi
SATOSHIS_PER_BTC == 100000000 \div 10000

NAMESPACE_1_CHAR_COST    == 400 * SATOSHIS_PER_BTC
NAMESPACE_23_CHAR_COST   == 40 * SATOSHIS_PER_BTC
NAMESPACE_4567_CHAR_COST == 4 * SATOSHIS_PER_BTC
NAMESPACE_8UP_CHAR_COST  == (4 * SATOSHIS_PER_BTC) \div 10

\* 10000 satoshi each, in units of 10^4 satoshi
TESTSET_NAMESPACE_1_CHAR_COST    == 10000 \div 10000
TESTSET_NAMESPACE_23_CHAR_COST   == 10000 \div 10000
TESTSET_NAMESPACE_4567_CHAR_COST == 10000 \div 10000
TESTSET_NAMESPACE_8UP_CHAR_COST  == 10000 \div 10000

BLOCKSTORE_BURN_ADDRESS == "1111111111111111111114oLvT2"

\* the window of blocks whose consensus hash an operation may carry
\* (spec 4.3.1, "max_preorder_age"; spec 9 proposes 12)
max_preorder_age == 12

----------------------------------------------------------------------------
(* Python dicts *)

Put(d, k, v) == (k :> v) @@ d

Del(d, ks) == [k \in (DOMAIN d) \ ks |-> d[k]]

Update(d, e) == e @@ d

----------------------------------------------------------------------------
(* Scripts, addresses and hashes.  The hash functions are modelled as the  *)
(* injective pairing of their arguments.                                   *)

BURN_SCRIPT == "76a914_burn"

\* pybitcoin.script_hex_to_address
script_hex_to_address(script) ==
    IF script = BURN_SCRIPT THEN BLOCKSTORE_BURN_ADDRESS ELSE "addr_" \o script

\* hashing.hash_name( name, script_pubkey, register_addr )
hash_name(name, script_pubkey, register_addr) ==
    << name, script_pubkey, register_addr >>

\* hashing.hash256_trunc128( name ); a name is << label, namespace_id >>
hash256_trunc128(name) == << "sha256_128", name[1], name[2] >>

\* scripts.get_namespace_from_name
get_namespace_from_name(name) == name[2]

----------------------------------------------------------------------------
(* Transactions.  A transaction is                                         *)
(*   [opcode, payload, senders, inputs, outputs]                           *)
(* senders[1] = [script_pubkey, addresses], inputs[i] = [pubkey_hex,       *)
(* address] (the public key in the scriptSig and the address it hashes     *)
(* to), outputs[i] = [op_return, hex, addresses, value] with value in BTC. *)
(* A payload is the record of its wire fields together with its length in  *)
(* bytes.                                                                  *)

LENGTHS == [ preorder_name_hash |-> 20, consensus_hash |-> 16, name_min |-> 1,
             name_hash |-> 16, blockchain_id_name |-> 37,
             blockchain_id_namespace_life |-> 4,
             blockchain_id_namespace_coeff |-> 1,
             blockchain_id_namespace_base |-> 1,
             blockchain_id_namespace_buckets |-> 8,
             blockchain_id_namespace_discounts |-> 1,
             blockchain_id_namespace_version |-> 2,
             blockchain_id_namespace_id |-> 19 ]

MIN_OP_LENGTHS ==
    [ preorder |-> LENGTHS.preorder_name_hash + LENGTHS.consensus_hash,
      transfer |-> LENGTHS.name_hash + LENGTHS.consensus_hash,
      namespace_preorder |-> LENGTHS.preorder_name_hash + LENGTHS.consensus_hash,
      namespace_reveal |-> LENGTHS.blockchain_id_namespace_life
                           + LENGTHS.blockchain_id_namespace_coeff
                           + LENGTHS.blockchain_id_namespace_base
                           + LENGTHS.blockchain_id_namespace_buckets
                           + LENGTHS.blockchain_id_namespace_discounts
                           + LENGTHS.blockchain_id_namespace_version
                           + LENGTHS.name_min,
      namespace_ready |-> 1 + LENGTHS.name_min ]

B40_CHARS == { "0","1","2","3","4","5","6","7","8","9",
               "a","b","c","d","e","f","g","h","i","j","k","l","m",
               "n","o","p","q","r","s","t","u","v","w","x","y","z",
               "-","_",".","+" }

\* b40.is_b40; a string is the sequence of its characters
is_b40(s) == Len(s) > 0 /\ \A i \in 1..Len(s) : s[i] \in B40_CHARS

Contains(s, c) == \E i \in 1..Len(s) : s[i] = c

\* virtualchain_hooks.get_burn_fee_from_outputs: the optional fee, {} for None
RECURSIVE burn_fee_from(_, _)
burn_fee_from(outputs, i) ==
    IF i > Len(outputs) THEN {}
    ELSE IF ~outputs[i].op_return
            /\ BLOCKSTORE_BURN_ADDRESS = outputs[i].addresses[1]
         THEN { outputs[i].value * SATOSHIS_PER_BTC }
         ELSE burn_fee_from(outputs, i + 1)

\* the fee of the last burn output instead of the first
RECURSIVE last_burn_fee_from(_, _)
last_burn_fee_from(outputs, i) ==
    IF i < 1 THEN {}
    ELSE IF ~outputs[i].op_return
            /\ BLOCKSTORE_BURN_ADDRESS = outputs[i].addresses[1]
         THEN { outputs[i].value * SATOSHIS_PER_BTC }
         ELSE last_burn_fee_from(outputs, i - 1)

get_burn_fee_from_last_output(outputs) == last_burn_fee_from(outputs, Len(outputs))

get_burn_fee_from_outputs(outputs) == burn_fee_from(outputs, 1)

\* operations.get_transfer_recipient_from_outputs: {} when it raises
RECURSIVE recipient_from(_, _)
recipient_from(outputs, i) ==
    IF i > Len(outputs) THEN {}
    ELSE IF ~outputs[i].op_return /\ outputs[i].hex # ""
         THEN { outputs[i].hex }
         ELSE recipient_from(outputs, i + 1)

get_transfer_recipient_from_outputs(outputs) == recipient_from(outputs, 1)

\* operations.get_registration_recipient_from_outputs (spec 4.1: the first
\* non-op-return output)
get_registration_recipient_from_outputs(outputs) == recipient_from(outputs, 1)

\* virtualchain_hooks.get_public_key_hex_from_tx: None when no input matches
RECURSIVE public_key_from(_, _, _)
public_key_from(inputs, address, i) ==
    IF i > Len(inputs) THEN None
    ELSE IF inputs[i].address = address THEN inputs[i].pubkey_hex
         ELSE public_key_from(inputs, address, i + 1)

get_public_key_hex_from_tx(inputs, address) == public_key_from(inputs, address, 1)

\* operations/preorder.parse without the test of the length
parse_preorder_any_length(payload) ==
    { [ opcode |-> "NAME_PREORDER",
        preorder_hash |-> payload.preorder_hash,
        consensus_hash |-> payload.consensus_hash ] }

\* operations/preorder.parse: {} for None
parse_preorder(payload) ==
    IF payload.len # LENGTHS.preorder_name_hash + LENGTHS.consensus_hash
    THEN {}
    ELSE { [ opcode |-> "NAME_PREORDER",
             preorder_hash |-> payload.preorder_hash,
             consensus_hash |-> payload.consensus_hash ] }

\* operations/namespacepreorder.parse (spec 4.1: the wire form of NAME_PREORDER)
parse_namespace_preorder(payload) ==
    IF payload.len # LENGTHS.preorder_name_hash + LENGTHS.consensus_hash
    THEN {}
    ELSE { [ opcode |-> "NAMESPACE_PREORDER",
             preorder_hash |-> payload.preorder_hash,
             consensus_hash |-> payload.consensus_hash ] }

\* str.count for a single character
count(s, c) == Cardinality({ i \in 1..Len(s) : s[i] = c })

\* operations/transfer.transfer_sanity_check: FALSE when it raises.  `name`
\* is {} for None, or holds the text of the name
transfer_sanity_check(name, consensus_hash) ==
    \A n \in name :
        /\ ~(~is_b40(n) \/ Contains(n, "+") \/ count(n, ".") > 1)
        /\ ~(Len(n) > LENGTHS.blockchain_id_name)

\* operations/transfer.parse
parse_transfer(payload, recipient) ==
    IF payload.len # 1 + LENGTHS.name_hash + LENGTHS.consensus_hash
    THEN {}
    ELSE IF payload.disposition \notin { TRANSFER_REMOVE_DATA, TRANSFER_KEEP_DATA }
    THEN {}
    ELSE IF ~transfer_sanity_check({}, payload.consensus_hash)
    THEN {}
    ELSE { [ opcode |-> "NAME_TRANSFER",
             name_hash128 |-> payload.name_hash128,
             consensus_hash |-> payload.consensus_hash,
             recipient |-> recipient,
             keep_data |-> (payload.disposition # TRANSFER_REMOVE_DATA) ] }

\* blockstore/lib/operations/transfer.parse, the parser of the older
\* generation: no test of the length or of the disposition
blockstore_parse_transfer(payload, recipient) ==
    { [ opcode |-> "NAME_TRANSFER",
        name_hash |-> payload.name_hash128,
        consensus_hash |-> payload.consensus_hash,
        recipient |-> recipient,
        keep_data |-> (payload.disposition # TRANSFER_REMOVE_DATA) ] }

\* a sanity check that lets a discount of 0 pass
namespacereveal_sanity_check_zero_discount(namespace_id, version, lifetime, coeff, base, bucket_exponents, nonalpha_discount, no_vowel_discount) ==
    /\ is_b40(namespace_id)
    /\ ~Contains(namespace_id, "+")
    /\ ~Contains(namespace_id, ".")
    /\ Len(namespace_id) <= LENGTHS.blockchain_id_namespace_id
    /\ coeff >= 0 /\ coeff <= 255
    /\ base >= 0 /\ base <= 255
    /\ Len(bucket_exponents) = 16
    /\ \A i \in 1..Len(bucket_exponents) :
          bucket_exponents[i] >= 0 /\ bucket_exponents[i] <= 15
    /\ nonalpha_discount >= 0 /\ nonalpha_discount <= 15
    /\ no_vowel_discount >= 0 /\ no_vowel_discount <= 15

\* operations/namespacereveal.namespacereveal_sanity_check: FALSE when it raises
namespacereveal_sanity_check(namespace_id, version, lifetime, coeff, base, bucket_exponents, nonalpha_discount, no_vowel_discount) ==
    /\ is_b40(namespace_id)
    /\ ~Contains(namespace_id, "+")
    /\ ~Contains(namespace_id, ".")
    /\ Len(namespace_id) <= LENGTHS.blockchain_id_namespace_id
    /\ coeff >= 0 /\ coeff <= 255
    /\ base >= 0 /\ base <= 255
    /\ Len(bucket_exponents) = 16
    /\ \A i \in 1..Len(bucket_exponents) :
          bucket_exponents[i] >= 0 /\ bucket_exponents[i] <= 15
    /\ nonalpha_discount > 0 /\ nonalpha_discount <= 15
    /\ no_vowel_discount > 0 /\ no_vowel_discount <= 15

\* operations/namespacereveal.parse
parse_namespace_reveal(payload, sender_script, recipient_address) ==
    IF ~namespacereveal_sanity_check(payload.namespace_id, payload.version,
            payload.lifetime, payload.coeff, payload.base, payload.buckets,
            payload.nonalpha_discount, payload.no_vowel_discount)
    THEN {}
    ELSE { [ opcode |-> "NAMESPACE_REVEAL",
             lifetime |-> payload.lifetime,
             coeff |-> payload.coeff,
             base |-> payload.base,
             buckets |-> payload.buckets,
             version |-> payload.version,
             nonalpha_discount |-> payload.nonalpha_discount,
             no_vowel_discount |-> payload.no_vowel_discount,
             namespace_id |-> payload.namespace_id,
             preorder_hash |-> hash_name(payload.namespace_id, sender_script,
                                         recipient_address) ] }

\* operations/namespaceready.parse
parse_namespace_ready(payload) ==
    IF payload.len = 0 THEN {}
    ELSE IF payload.delimiter # "." THEN {}
    ELSE IF ~is_b40(payload.namespace_id)
            \/ Contains(payload.namespace_id, "+")
            \/ Contains(payload.namespace_id, ".")
    THEN {}
    ELSE IF Len(payload.namespace_id) <= 0
            \/ Len(payload.namespace_id) > LENGTHS.blockchain_id_namespace_id
    THEN {}
    ELSE { [ opcode |-> "NAMESPACE_READY",
             namespace_id |-> payload.namespace_id ] }

\* virtualchain_hooks.parse_blockstore_op_data
parse_blockstore_op_data(opcode, payload, sender, recipient, recipient_address) ==
    IF opcode = NAME_PREORDER /\ payload.len >= MIN_OP_LENGTHS.preorder
    THEN parse_preorder(payload)
    ELSE IF opcode = NAME_TRANSFER /\ payload.len >= MIN_OP_LENGTHS.transfer
    THEN parse_transfer(payload, recipient)
    ELSE IF opcode = NAMESPACE_PREORDER /\ payload.len >= MIN_OP_LENGTHS.namespace_preorder
    THEN parse_namespace_preorder(payload)
    ELSE IF opcode = NAMESPACE_REVEAL /\ payload.len >= MIN_OP_LENGTHS.namespace_reveal
    THEN parse_namespace_reveal(payload, sender, recipient_address)
    ELSE IF opcode = NAMESPACE_READY /\ payload.len >= MIN_OP_LENGTHS.namespace_ready
    THEN parse_namespace_ready(payload)
    ELSE {}

\* virtualchain_hooks.db_parse: the set holding the parsed operation, {} when
\* it returns None or raises
db_parse(block_id, opcode, data, senders, inputs, outputs) ==
    LET sender  == senders[1].script_pubkey
        address == senders[1].addresses[1]
        sender_pubkey_hex == get_public_key_hex_from_tx(inputs, address)
        op_fee  == get_burn_fee_from_outputs(outputs)
        found   == IF opcode \in { NAME_REGISTRATION, NAMESPACE_REVEAL }
                   THEN get_registration_recipient_from_outputs(outputs)
                   ELSE IF opcode \in { NAME_IMPORT, NAME_TRANSFER }
                   THEN get_transfer_recipient_from_outputs(outputs)
                   ELSE {}
        needs_recipient == opcode \in { NAME_REGISTRATION, NAMESPACE_REVEAL,
                                        NAME_IMPORT, NAME_TRANSFER }
        recipient == IF found = {} THEN None ELSE CHOOSE r \in found : TRUE
        recipient_address == IF found = {} THEN None
                             ELSE script_hex_to_address(recipient)
    IN  IF Len(senders) = 0 \/ Len(senders[1].addresses) # 1 THEN {}
        ELSE IF sender_pubkey_hex = None THEN {}
        ELSE IF needs_recipient /\ found = {} THEN {}
        ELSE { LET with_fee  == IF op_fee = {} THEN op
                                ELSE Put(op, "op_fee", CHOOSE f \in op_fee : TRUE)
                   with_from == Put(Put(with_fee, "sender", sender), "address", address)
                   with_to   == IF recipient = None THEN with_from
                                ELSE Put(Put(with_from, "recipient", recipient),
                                         "recipient_address", recipient_address)
               IN  Put(with_to, "sender_pubkey", sender_pubkey_hex)
               : op \in parse_blockstore_op_data(opcode, data, sender,
                                                 recipient, recipient_address) }

\* operations/*.tx_extract: the fields the extraction adds to the parsed payload
tx_extract(opcode, block_id, vtxindex) ==
    LET base == [ vtxindex |-> vtxindex, op |-> opcode ]
    IN  IF opcode \in { NAME_PREORDER, NAMESPACE_PREORDER }
        THEN Put(base, "block_number", block_id)
        ELSE IF opcode = NAMESPACE_REVEAL
        THEN Put(base, "reveal_block", block_id)
        ELSE IF opcode = NAMESPACE_READY
        THEN Put(base, "ready_block", block_id)
        ELSE base

----------------------------------------------------------------------------
(* Queries of the state engine (nameset/namedb), after spec 3 and 4.3.     *)

\* state_engine.lastblock while `block` is being processed
lastblock == block - 1

is_new_preorder(preorder_hash) ==
    ~\E p \in preorders : p.preorder_hash = preorder_hash

is_new_namespace_preorder(preorder_hash) ==
    ~\E p \in namespace_preorders : p.preorder_hash = preorder_hash

\* the consensus hash is the stored hash of a block in
\* [block_id - max_preorder_age, block_id]
is_consensus_hash_valid(block_id, consensus_hash) ==
    \E b \in (block_id - max_preorder_age)..block_id :
        b \in DOMAIN consensus_hashes /\ consensus_hashes[b] = consensus_hash

\* the block a consensus hash was stored for, None when there is none
get_block_from_consensus(consensus_hash) ==
    IF \E b \in DOMAIN consensus_hashes : consensus_hashes[b] = consensus_hash
    THEN CHOOSE b \in DOMAIN consensus_hashes : consensus_hashes[b] = consensus_hash
    ELSE -1

\* an optional value is the set holding it, {} for None
The(S) == CHOOSE x \in S : TRUE

get_name_from_name_hash128(name_hash) ==
    { n \in DOMAIN name_records : hash256_trunc128(n) = name_hash }

get_name(name) ==
    { name_records[n] : n \in { name } \cap DOMAIN name_records }

is_namespace_ready(namespace_id) ==
    /\ namespace_id \in DOMAIN namespaces
    /\ namespaces[namespace_id].op = NAMESPACE_READY

is_namespace_revealed(namespace_id) ==
    /\ namespace_id \in DOMAIN namespaces
    /\ namespaces[namespace_id].op = NAMESPACE_REVEAL

get_namespace_reveal(namespace_id) == namespaces[namespace_id]

get_namespace_preorder(namespace_id_hash) ==
    { p \in namespace_preorders : p.preorder_hash = namespace_id_hash }

is_name_revoked(name) == name_records[name].revoked

\* last_renewed + namespace.lifetime < block
is_name_expired(name, block_id) ==
    LET namespace_id == get_namespace_from_name(name)
    IN  /\ namespace_id \in DOMAIN namespaces
        /\ name_records[name].last_renewed + namespaces[namespace_id].lifetime < block_id

is_name_registered(name) ==
    /\ name \in DOMAIN name_records
    /\ ~is_name_expired(name, lastblock)
    /\ ~is_name_revoked(name)

is_name_owner(name, sender_script_pubkey) ==
    /\ is_name_registered(name)
    /\ name_records[name].sender = sender_script_pubkey

\* the active names whose owner script is `sender`
get_names_owned_by_sender(sender) ==
    { n \in DOMAIN name_records :
        /\ name_records[n].sender = sender
        /\ ~name_records[n].revoked
        /\ ~is_name_expired(n, lastblock) }

\* operations/register.get_num_names_owned: pending preorders count as zero
get_num_names_owned(checked, sender) ==
    Cardinality(get_names_owned_by_sender(sender))

\* a price list whose second tier reaches ids of four characters
price_namespace_wide_second_tier(namespace_id) ==
    IF Len(namespace_id) = 1
    THEN (IF testset THEN TESTSET_NAMESPACE_1_CHAR_COST ELSE NAMESPACE_1_CHAR_COST)
    ELSE IF Len(namespace_id) \in { 2, 3, 4 }
    THEN (IF testset THEN TESTSET_NAMESPACE_23_CHAR_COST ELSE NAMESPACE_23_CHAR_COST)
    ELSE IF Len(namespace_id) \in { 5, 6, 7 }
    THEN (IF testset THEN TESTSET_NAMESPACE_4567_CHAR_COST ELSE NAMESPACE_4567_CHAR_COST)
    ELSE (IF testset THEN TESTSET_NAMESPACE_8UP_CHAR_COST ELSE NAMESPACE_8UP_CHAR_COST)

\* scripts.price_namespace
price_namespace(namespace_id) ==
    IF Len(namespace_id) = 1
    THEN (IF testset THEN TESTSET_NAMESPACE_1_CHAR_COST ELSE NAMESPACE_1_CHAR_COST)
    ELSE IF Len(namespace_id) \in { 2, 3 }
    THEN (IF testset THEN TESTSET_NAMESPACE_23_CHAR_COST ELSE NAMESPACE_23_CHAR_COST)
    ELSE IF Len(namespace_id) \in { 4, 5, 6, 7 }
    THEN (IF testset THEN TESTSET_NAMESPACE_4567_CHAR_COST ELSE NAMESPACE_4567_CHAR_COST)
    ELSE (IF testset THEN TESTSET_NAMESPACE_8UP_CHAR_COST ELSE NAMESPACE_8UP_CHAR_COST)

----------------------------------------------------------------------------
(* The check functions.  Each returns [rc, nameop]: the verdict and the    *)
(* operation as the check leaves it.                                       *)

Reject(nameop) == [ rc |-> FALSE, nameop |-> nameop ]
Accept(nameop) == [ rc |-> TRUE, nameop |-> nameop ]

\* operations/preorder.check without the is_new_preorder test
preorder_check_any_hash_again(nameop, block_id, checked) ==
    IF ~is_consensus_hash_valid(block_id, nameop.consensus_hash) THEN Reject(nameop)
    ELSE IF get_num_names_owned(checked, nameop.sender) >= MAX_NAMES_PER_SENDER
    THEN Reject(nameop)
    ELSE IF "op_fee" \notin DOMAIN nameop THEN Reject(nameop)
    ELSE Accept(nameop)

\* operations/preorder.check without the consensus-hash test
preorder_check_any_consensus(nameop, block_id, checked) ==
    IF ~is_new_preorder(nameop.preorder_hash) THEN Reject(nameop)
    ELSE IF get_num_names_owned(checked, nameop.sender) >= MAX_NAMES_PER_SENDER
    THEN Reject(nameop)
    ELSE IF "op_fee" \notin DOMAIN nameop THEN Reject(nameop)
    ELSE Accept(nameop)

\* operations/preorder.check without the quota test
preorder_check_no_quota(nameop, block_id, checked) ==
    IF ~is_new_preorder(nameop.preorder_hash) THEN Reject(nameop)
    ELSE IF ~is_consensus_hash_valid(block_id, nameop.consensus_hash) THEN Reject(nameop)
    ELSE IF "op_fee" \notin DOMAIN nameop THEN Reject(nameop)
    ELSE Accept(nameop)

\* operations/preorder.check
preorder_check(nameop, block_id, checked) ==
    LET preorder_name_hash == nameop.preorder_hash
        consensus_hash == nameop.consensus_hash
        sender == nameop.sender
    IN  IF ~is_new_preorder(preorder_name_hash) THEN Reject(nameop)
        ELSE IF ~is_consensus_hash_valid(block_id, consensus_hash) THEN Reject(nameop)
        ELSE IF get_num_names_owned(checked, sender) >= MAX_NAMES_PER_SENDER
        THEN Reject(nameop)
        ELSE IF "op_fee" \notin DOMAIN nameop THEN Reject(nameop)
        ELSE Accept(nameop)

\* operations/namespacepreorder.check (spec 4.3.7: the shape of the name
\* preorder: a new hash, a valid consensus hash, a burn fee)
namespace_preorder_check(nameop, block_id, checked) ==
    IF ~is_new_namespace_preorder(nameop.preorder_hash) THEN Reject(nameop)
    ELSE IF ~is_consensus_hash_valid(block_id, nameop.consensus_hash) THEN Reject(nameop)
    ELSE IF "op_fee" \notin DOMAIN nameop THEN Reject(nameop)
    ELSE Accept(nameop)

\* operations/transfer.check, lines 228-253 with value_hash kept on '~'
transfer_accept_keeps_value(nameop, name, name_rec) ==
    LET n1 == Put(nameop, "name", name)
        n2 == Put(n1, "sender", nameop.recipient)
        n3 == Put(n2, "address", nameop.recipient_address)
        n4 == Put(n3, "sender_pubkey", None)
        n5 == Put(n4, "consensus_hash", name_rec.consensus_hash)
        n6 == Put(n5, "transfer_send_block_id",
                  get_block_from_consensus(nameop.consensus_hash))
        n7 == IF ~nameop.keep_data
              THEN Put(Put(n6, "value_hash", name_rec.value_hash),
                       "op", NAME_TRANSFER \o TRANSFER_REMOVE_DATA)
              ELSE Put(Put(n6, "value_hash", name_rec.value_hash),
                       "op", NAME_TRANSFER \o TRANSFER_KEEP_DATA)
    IN  Accept(Del(n7, { "recipient", "recipient_address", "keep_data",
                         "name_hash128" }))

\* operations/transfer.check, lines 228-253: the operation as an accepted
\* check leaves it
transfer_accept(nameop, name, name_rec) ==
    LET n1 == Put(nameop, "name", name)
        n2 == Put(n1, "sender", nameop.recipient)
        n3 == Put(n2, "address", nameop.recipient_address)
        n4 == Put(n3, "sender_pubkey", None)
        n5 == Put(n4, "consensus_hash", name_rec.consensus_hash)
        n6 == Put(n5, "transfer_send_block_id",
                  get_block_from_consensus(nameop.consensus_hash))
        n7 == IF ~nameop.keep_data
              THEN Put(Put(n6, "value_hash", None),
                       "op", NAME_TRANSFER \o TRANSFER_REMOVE_DATA)
              ELSE Put(Put(n6, "value_hash", name_rec.value_hash),
                       "op", NAME_TRANSFER \o TRANSFER_KEEP_DATA)
    IN  Accept(Del(n7, { "recipient", "recipient_address", "keep_data",
                         "name_hash128" }))

\* operations/transfer.check without the recipient's quota test
transfer_check_no_quota(nameop, block_id, checked) ==
    LET found == get_name_from_name_hash128(nameop.name_hash128)
        name == The(found)
        sender == nameop.sender
        recipient == nameop.recipient
        names_owned == get_names_owned_by_sender(recipient)
    IN  IF found = {} THEN Reject(nameop)
        ELSE IF get_name(name) = {} THEN Reject(nameop)
        ELSE IF ~is_namespace_ready(get_namespace_from_name(name)) THEN Reject(nameop)
        ELSE IF is_name_revoked(name) THEN Reject(nameop)
        ELSE IF is_name_expired(name, lastblock) THEN Reject(nameop)
        ELSE IF ~is_consensus_hash_valid(block_id, nameop.consensus_hash)
        THEN Reject(nameop)
        ELSE IF sender = recipient THEN Reject(nameop)
        ELSE IF ~is_name_registered(name) THEN Reject(nameop)
        ELSE IF ~is_name_owner(name, sender) THEN Reject(nameop)
        ELSE IF name \in names_owned THEN Reject(nameop)
        ELSE IF get_block_from_consensus(nameop.consensus_hash) = -1
        THEN Reject(nameop)
        ELSE transfer_accept(nameop, name, The(get_name(name)))

\* operations/transfer.check without the test of the namespace
transfer_check_any_namespace(nameop, block_id, checked) ==
    LET found == get_name_from_name_hash128(nameop.name_hash128)
        name == The(found)
        sender == nameop.sender
        recipient == nameop.recipient
        names_owned == get_names_owned_by_sender(recipient)
    IN  IF found = {} THEN Reject(nameop)
        ELSE IF get_name(name) = {} THEN Reject(nameop)
        ELSE IF is_name_revoked(name) THEN Reject(nameop)
        ELSE IF is_name_expired(name, lastblock) THEN Reject(nameop)
        ELSE IF ~is_consensus_hash_valid(block_id, nameop.consensus_hash)
        THEN Reject(nameop)
        ELSE IF sender = recipient THEN Reject(nameop)
        ELSE IF ~is_name_registered(name) THEN Reject(nameop)
        ELSE IF ~is_name_owner(name, sender) THEN Reject(nameop)
        ELSE IF name \in names_owned THEN Reject(nameop)
        ELSE IF Cardinality(names_owned) >= MAX_NAMES_PER_SENDER THEN Reject(nameop)
        ELSE IF get_block_from_consensus(nameop.consensus_hash) = -1
        THEN Reject(nameop)
        ELSE transfer_accept(nameop, name, The(get_name(name)))

\* operations/transfer.check
transfer_check(nameop, block_id, checked) ==
    LET name_hash == nameop.name_hash128
        found == get_name_from_name_hash128(name_hash)
        name == The(found)
        consensus_hash == nameop.consensus_hash
        sender == nameop.sender
        recipient == nameop.recipient
        namespace_id == get_namespace_from_name(name)
        name_rec == The(get_name(name))
        names_owned == get_names_owned_by_sender(recipient)
        transfer_send_block_id == get_block_from_consensus(nameop.consensus_hash)
    IN  IF found = {} THEN Reject(nameop)
        ELSE IF get_name(name) = {} THEN Reject(nameop)
        ELSE IF ~is_namespace_ready(namespace_id) THEN Reject(nameop)
        ELSE IF is_name_revoked(name) THEN Reject(nameop)
        ELSE IF is_name_expired(name, lastblock) THEN Reject(nameop)
        ELSE IF ~is_consensus_hash_valid(block_id, consensus_hash) THEN Reject(nameop)
        ELSE IF sender = recipient THEN Reject(nameop)
        ELSE IF ~is_name_registered(name) THEN Reject(nameop)
        ELSE IF ~is_name_owner(name, sender) THEN Reject(nameop)
        ELSE IF name \in names_owned THEN Reject(nameop)
        ELSE IF Cardinality(names_owned) >= MAX_NAMES_PER_SENDER THEN Reject(nameop)
        ELSE IF transfer_send_block_id = -1 THEN Reject(nameop)
        ELSE transfer_accept(nameop, name, name_rec)

\* operations/namespacereveal.check without the comparison of the fee paid
\* with the price
namespacereveal_check_any_fee(nameop, block_id, checked) ==
    LET namespace_id == nameop.namespace_id
        namespace_id_hash == nameop.preorder_hash
        sender == nameop.sender
        namespace_preorder == The(get_namespace_preorder(namespace_id_hash))
    IN  IF "sender_pubkey" \notin DOMAIN nameop THEN Reject(nameop)
        ELSE IF "recipient" \notin DOMAIN nameop THEN Reject(nameop)
        ELSE IF "recipient_address" \notin DOMAIN nameop THEN Reject(nameop)
        ELSE IF ~is_b40(namespace_id) \/ Contains(namespace_id, "+")
                \/ Contains(namespace_id, ".")
        THEN Reject(nameop)
        ELSE IF is_namespace_revealed(namespace_id) THEN Reject(nameop)
        ELSE IF is_namespace_ready(namespace_id) THEN Reject(nameop)
        ELSE IF get_namespace_preorder(namespace_id_hash) = {} THEN Reject(nameop)
        \* a preorder of another sender is logged and not rejected (lines 272-274)
        ELSE IF nameop.version # BLOCKSTACK_VERSION THEN Reject(nameop)
        ELSE IF "op_fee" \notin DOMAIN namespace_preorder THEN Reject(nameop)
        ELSE Accept(
            LET n1 == Put(nameop, "block_number", namespace_preorder.block_number)
                n2 == Put(n1, "reveal_block", n1.block_number)
                n3 == Put(n2, "ready_block", 0)
            IN  Put(n3, "op_fee", namespace_preorder.op_fee))

\* operations/namespacereveal.check without the is_namespace_ready test
namespacereveal_check_ready_again(nameop, block_id, checked) ==
    LET namespace_id == nameop.namespace_id
        namespace_id_hash == nameop.preorder_hash
        sender == nameop.sender
        namespace_preorder == The(get_namespace_preorder(namespace_id_hash))
    IN  IF "sender_pubkey" \notin DOMAIN nameop THEN Reject(nameop)
        ELSE IF "recipient" \notin DOMAIN nameop THEN Reject(nameop)
        ELSE IF "recipient_address" \notin DOMAIN nameop THEN Reject(nameop)
        ELSE IF ~is_b40(namespace_id) \/ Contains(namespace_id, "+")
                \/ Contains(namespace_id, ".")
        THEN Reject(nameop)
        ELSE IF is_namespace_revealed(namespace_id) THEN Reject(nameop)
        ELSE IF get_namespace_preorder(namespace_id_hash) = {} THEN Reject(nameop)
        \* a preorder of another sender is logged and not rejected (lines 272-274)
        ELSE IF nameop.version # BLOCKSTACK_VERSION THEN Reject(nameop)
        ELSE IF "op_fee" \notin DOMAIN namespace_preorder THEN Reject(nameop)
        ELSE IF namespace_preorder.op_fee < price_namespace(namespace_id)
        THEN Reject(nameop)
        ELSE Accept(
            LET n1 == Put(nameop, "block_number", namespace_preorder.block_number)
                n2 == Put(n1, "reveal_block", n1.block_number)
                n3 == Put(n2, "ready_block", 0)
            IN  Put(n3, "op_fee", namespace_preorder.op_fee))

\* operations/namespacereveal.check
namespacereveal_check(nameop, block_id, checked) ==
    LET namespace_id == nameop.namespace_id
        namespace_id_hash == nameop.preorder_hash
        sender == nameop.sender
        namespace_preorder == The(get_namespace_preorder(namespace_id_hash))
    IN  IF "sender_pubkey" \notin DOMAIN nameop THEN Reject(nameop)
        ELSE IF "recipient" \notin DOMAIN nameop THEN Reject(nameop)
        ELSE IF "recipient_address" \notin DOMAIN nameop THEN Reject(nameop)
        ELSE IF ~is_b40(namespace_id) \/ Contains(namespace_id, "+")
                \/ Contains(namespace_id, ".")
        THEN Reject(nameop)
        ELSE IF is_namespace_revealed(namespace_id) THEN Reject(nameop)
        ELSE IF is_namespace_ready(namespace_id) THEN Reject(nameop)
        ELSE IF get_namespace_preorder(namespace_id_hash) = {} THEN Reject(nameop)
        \* a preorder of another sender is logged and not rejected (lines 272-274)
        ELSE IF nameop.version # BLOCKSTACK_VERSION THEN Reject(nameop)
        ELSE IF "op_fee" \notin DOMAIN namespace_preorder THEN Reject(nameop)
        ELSE IF namespace_preorder.op_fee < price_namespace(namespace_id)
        THEN Reject(nameop)
        ELSE Accept(
            LET n1 == Put(nameop, "block_number", namespace_preorder.block_number)
                n2 == Put(n1, "reveal_block", n1.block_number)
                n3 == Put(n2, "ready_block", 0)
            IN  Put(n3, "op_fee", namespace_preorder.op_fee))

\* operations/namespaceready.check without the test of the sender
namespaceready_check_any_sender(nameop, block_id, checked) ==
    LET namespace_id == nameop.namespace_id
        revealed_namespace == get_namespace_reveal(namespace_id)
    IN  IF ~is_namespace_revealed(namespace_id) THEN Reject(nameop)
        ELSE IF is_namespace_ready(namespace_id) THEN Reject(nameop)
        ELSE Accept(Put(Put(nameop, "sender_pubkey", revealed_namespace.sender_pubkey),
                        "address", revealed_namespace.address))

\* operations/namespaceready.check with the fields of the reveal copied
\* before the tests of the sender and of the state
namespaceready_check_writes_first(nameop, block_id, checked) ==
    LET namespace_id == nameop.namespace_id
        sender == nameop.sender
        revealed_namespace == get_namespace_reveal(namespace_id)
        written == Put(Put(nameop, "sender_pubkey", revealed_namespace.sender_pubkey),
                       "address", revealed_namespace.address)
    IN  IF ~is_namespace_revealed(namespace_id) THEN Reject(nameop)
        ELSE IF revealed_namespace.recipient # sender THEN Reject(written)
        ELSE IF is_namespace_ready(namespace_id) THEN Reject(written)
        ELSE Accept(written)

\* operations/namespaceready.check
namespaceready_check(nameop, block_id, checked) ==
    LET namespace_id == nameop.namespace_id
        sender == nameop.sender
        revealed_namespace == get_namespace_reveal(namespace_id)
    IN  IF ~is_namespace_revealed(namespace_id) THEN Reject(nameop)
        ELSE IF revealed_namespace.recipient # sender THEN Reject(nameop)
        ELSE IF is_namespace_ready(namespace_id) THEN Reject(nameop)
        ELSE Accept(Put(Put(nameop, "sender_pubkey", revealed_namespace.sender_pubkey),
                        "address", revealed_namespace.address))

----------------------------------------------------------------------------
(* The decorators of nameset (state_preorder, state_create,                *)
(* state_transition): the collision guard of spec 8, "Commit(op) applied   *)
(* twice in the same block is rejected the second time".                   *)

\* an accepted operation of the same opcode carries the same preorder hash
check_preorder_collision(nameop, checked) ==
    \E i \in 1..Len(checked) :
        /\ checked[i].op = nameop.op
        /\ checked[i].preorder_hash = nameop.preorder_hash

\* an accepted NAMESPACE_REVEAL of this block creates the same namespace
check_namespace_collision(nameop, checked) ==
    \E i \in 1..Len(checked) :
        /\ checked[i].op = NAMESPACE_REVEAL
        /\ checked[i].namespace_id = nameop.namespace_id

\* the same transition was already accepted in this block
check_transition_collision(nameop, checked) ==
    \E i \in 1..Len(checked) :
        Del(checked[i], { "vtxindex" }) = Del(nameop, { "vtxindex" })

state_preorder(result, checked) ==
    IF result.rc /\ check_preorder_collision(result.nameop, checked)
    THEN Reject(result.nameop) ELSE result

state_create(result, checked) ==
    IF result.rc /\ check_namespace_collision(result.nameop, checked)
    THEN Reject(result.nameop) ELSE result

state_transition(result, checked) ==
    IF result.rc /\ check_transition_collision(result.nameop, checked)
    THEN Reject(result.nameop) ELSE result

\* virtualchain_hooks.db_check
db_check(block_id, checked, opcode, op) ==
    IF opcode = NAME_PREORDER
    THEN state_preorder(preorder_check(op, block_id, checked), checked)
    ELSE IF opcode = NAME_TRANSFER
    THEN state_transition(transfer_check(op, block_id, checked), checked)
    ELSE IF opcode = NAMESPACE_PREORDER
    THEN state_preorder(namespace_preorder_check(op, block_id, checked), checked)
    ELSE IF opcode = NAMESPACE_REVEAL
    THEN state_create(namespacereveal_check(op, block_id, checked), checked)
    ELSE IF opcode = NAMESPACE_READY
    THEN state_transition(namespaceready_check(op, block_id, checked), checked)
    ELSE Reject(op)

----------------------------------------------------------------------------
(* The commits of namedb, after spec 4.3: each writes the fields its       *)
(* operation declares.                                                     *)

Restrict(d, ks) == [k \in (DOMAIN d) \cap ks |-> d[k]]

\* nameset.NAMEREC_MUTATE_FIELDS
NAMEREC_MUTATE_FIELDS == { "vtxindex", "op" }

\* operations/preorder.FIELDS
PREORDER_FIELDS == { "preorder_hash", "consensus_hash", "sender", "sender_pubkey",
                     "address", "block_number", "op", "vtxindex", "op_fee" }

\* operations/transfer.MUTATE_FIELDS
TRANSFER_MUTATE_FIELDS ==
    NAMEREC_MUTATE_FIELDS \cup { "sender", "address", "sender_pubkey", "value_hash" }

\* operations/namespacereveal.FIELDS
NAMESPACE_REVEAL_FIELDS ==
    { "namespace_id", "preorder_hash", "version", "sender", "sender_pubkey",
      "address", "recipient", "recipient_address", "block_number", "reveal_block",
      "op", "vtxindex", "lifetime", "coeff", "base", "buckets",
      "nonalpha_discount", "no_vowel_discount" }

\* operations/namespaceready.MUTATE_FIELDS
NAMESPACE_READY_MUTATE_FIELDS == NAMEREC_MUTATE_FIELDS \cup { "ready_block", "sender" }

commit_preorder(nameop) == Restrict(nameop, PREORDER_FIELDS)

commit_transfer(nameop) ==
    Update(name_records[nameop.name],
           Restrict(nameop, TRANSFER_MUTATE_FIELDS \cup { "transfer_send_block_id" }))

\* the consensus hash stored for a block, None when there is none
get_consensus_at(block_id) ==
    IF block_id \in DOMAIN consensus_hashes THEN { consensus_hashes[block_id] }
    ELSE {}

\* the last character of a two-character transfer op, None for another op
transfer_disposition(op) ==
    { d \in { TRANSFER_KEEP_DATA, TRANSFER_REMOVE_DATA } : op = NAME_TRANSFER \o d }

\* operations/transfer.snv_consensus_extras with the consensus hash read
\* from the record
snv_consensus_extras_own_hash(name_rec) ==
    IF transfer_disposition(name_rec.op) = {} THEN {}
    ELSE IF "transfer_send_block_id" \notin DOMAIN name_rec THEN {}
    ELSE { [ recipient |-> name_rec.sender,
             recipient_address |-> name_rec.address,
             keep_data |-> The(transfer_disposition(name_rec.op)) = TRANSFER_KEEP_DATA,
             name_hash128 |-> hash256_trunc128(name_rec.name),
             sender_pubkey |-> None,
             consensus_hash |-> name_rec.consensus_hash ] }

\* operations/transfer.snv_consensus_extras: the consensus fields of the
\* transfer that are not in the name record, {} where the function ends the
\* process (sys.exit)
snv_consensus_extras(name_rec) ==
    IF transfer_disposition(name_rec.op) = {} THEN {}
    ELSE IF "transfer_send_block_id" \notin DOMAIN name_rec THEN {}
    ELSE IF get_consensus_at(name_rec.transfer_send_block_id) = {} THEN {}
    ELSE { [ recipient |-> name_rec.sender,
             recipient_address |-> name_rec.address,
             keep_data |-> The(transfer_disposition(name_rec.op)) = TRANSFER_KEEP_DATA,
             name_hash128 |-> hash256_trunc128(name_rec.name),
             sender_pubkey |-> None,
             consensus_hash |-> The(get_consensus_at(name_rec.transfer_send_block_id)) ] }

commit_namespace_reveal(nameop) ==
    Restrict(nameop, NAMESPACE_REVEAL_FIELDS \cup { "ready_block", "op_fee" })

commit_namespace_ready(nameop) ==
    Update(namespaces[nameop.namespace_id],
           Restrict(nameop, NAMESPACE_READY_MUTATE_FIELDS))

----------------------------------------------------------------------------
(* The chain the engine is fed: scripts, names and transactions.           *)

StartBlock == 400000      \* first block of a run

S == "S"
R == "R"
T == "T"

test == << "t", "e", "s", "t" >>
apps == << "a", "p", "p", "s" >>
shop == << "s", "h", "o", "p" >>

\* a namespace id one character too long
twenty == [ i \in 1..(LENGTHS.blockchain_id_namespace_id + 1) |-> "n" ]

alice == << << "a", "l", "i", "c", "e" >>, test >>
bob   == << << "b", "o", "b" >>, test >>
carol == << << "c", "a", "r", "o", "l" >>, test >>
dave  == << << "d", "a", "v", "e" >>, test >>

DIGITS == << "0", "1", "2", "3", "4", "5", "6", "7", "8", "9" >>

\* the names R owns at the start: one short of the quota
bulk(i) == << << "n", DIGITS[(i \div 10) + 1], DIGITS[(i % 10) + 1] >>, test >>
BulkNames == { bulk(i) : i \in 1..(MAX_NAMES_PER_SENDER - 1) }

pubkey_of(script) == "pk_" \o script

Senders(script) ==
    << [ script_pubkey |-> script, addresses |-> << script_hex_to_address(script) >> ] >>

Inputs(script) ==
    << [ pubkey_hex |-> pubkey_of(script), address |-> script_hex_to_address(script) ] >>

OpReturn == [ op_return |-> TRUE, hex |-> "", addresses |-> << >>, value |-> 0 ]

Pay(script, value) ==
    [ op_return |-> FALSE, hex |-> script,
      addresses |-> << script_hex_to_address(script) >>, value |-> value ]

Tx(opcode, payload, script, outputs) ==
    [ opcode |-> opcode, payload |-> payload, senders |-> Senders(script),
      inputs |-> Inputs(script), outputs |-> outputs ]

\* the hash the engine stores for a block
snapshot(block_id) == << "consensus", block_id >>

FORGED == << "forged", 0 >>

PreorderPayload(preorder_hash, consensus_hash) ==
    [ len |-> LENGTHS.preorder_name_hash + LENGTHS.consensus_hash,
      preorder_hash |-> preorder_hash, consensus_hash |-> consensus_hash ]

TransferPayload(disposition, name, consensus_hash) ==
    [ len |-> 1 + LENGTHS.name_hash + LENGTHS.consensus_hash,
      disposition |-> disposition, name_hash128 |-> hash256_trunc128(name),
      consensus_hash |-> consensus_hash ]

RevealPayload(namespace_id, version) ==
    [ len |-> MIN_OP_LENGTHS.namespace_reveal - 1 + Len(namespace_id),
      namespace_id |-> namespace_id, version |-> version,
      lifetime |-> BLOCKS_PER_YEAR, coeff |-> 4, base |-> 4,
      buckets |-> [ i \in 1..16 |-> 1 ],
      nonalpha_discount |-> 1, no_vowel_discount |-> 1 ]

ReadyPayload(namespace_id) ==
    [ len |-> 1 + Len(namespace_id), delimiter |-> ".", namespace_id |-> namespace_id ]

\* preorder.build: OP_RETURN, change, burn
PreorderTx(opcode, preorder_hash, consensus_hash, script, tail) ==
    Tx(opcode, PreorderPayload(preorder_hash, consensus_hash), script,
       << OpReturn, Pay(script, 1) >> \o tail)

\* transfer.build: OP_RETURN, recipient, change
TransferTx(disposition, name, consensus_hash, script, recipient) ==
    Tx(NAME_TRANSFER, TransferPayload(disposition, name, consensus_hash), script,
       << OpReturn, Pay(recipient, 0), Pay(script, 1) >>)

RevealTx(namespace_id, version, script, recipient) ==
    Tx(NAMESPACE_REVEAL, RevealPayload(namespace_id, version), script,
       << OpReturn, Pay(recipient, 0), Pay(script, 1) >>)

ReadyTx(namespace_id, script) ==
    Tx(NAMESPACE_READY, ReadyPayload(namespace_id), script,
       << OpReturn, Pay(script, 1) >>)

OldHash == hash_name(dave, S, script_hex_to_address(S))

\* the name transactions a block at height b may carry
NameTxs(b) ==
    LET recent == snapshot(b - 1)
        stale  == snapshot(StartBlock - max_preorder_age - 1)
        burn1  == << Pay(BURN_SCRIPT, 1) >>
        hcarol == hash_name(carol, S, script_hex_to_address(S))
    IN  { PreorderTx(NAME_PREORDER, hcarol, recent, R, burn1),
          PreorderTx(NAME_PREORDER, hcarol, recent, T,
                     << Pay(BURN_SCRIPT, 2), Pay(BURN_SCRIPT, 3) >>),
          PreorderTx(NAME_PREORDER, hcarol, recent, T, << >>),
          PreorderTx(NAME_PREORDER, hash_name(bob, T, script_hex_to_address(T)),
                     stale, T, burn1),
          PreorderTx(NAME_PREORDER, OldHash, recent, S, burn1),
          TransferTx(TRANSFER_KEEP_DATA, alice, recent, S, R),
          TransferTx(TRANSFER_REMOVE_DATA, bob, recent, S, R),
          TransferTx(TRANSFER_REMOVE_DATA, alice, recent, R, T),
          TransferTx(TRANSFER_KEEP_DATA, bob, FORGED, S, T),
          TransferTx(TRANSFER_KEEP_DATA, bob, stale, S, T) }

\* the namespace transactions a block at height b may carry
NamespaceTxs(b) ==
    LET recent == snapshot(b - 1)
        toR    == script_hex_to_address(R)
    IN  { PreorderTx(NAMESPACE_PREORDER, hash_name(apps, S, toR), recent, T,
                     << Pay(BURN_SCRIPT, 4) >>),
          PreorderTx(NAMESPACE_PREORDER, hash_name(apps, S, toR), recent, S,
                     << Pay(BURN_SCRIPT, 3) >>),
          PreorderTx(NAMESPACE_PREORDER, hash_name(test, S, toR), recent, S,
                     << Pay(BURN_SCRIPT, 4) >>),
          RevealTx(apps, BLOCKSTACK_VERSION, S, R),
          RevealTx(apps, BLOCKSTACK_VERSION + 1, S, R),
          RevealTx(test, BLOCKSTACK_VERSION, S, R),
          RevealTx(shop, BLOCKSTACK_VERSION, S, R),
          [ RevealTx(apps, BLOCKSTACK_VERSION, S, R)
              EXCEPT !.payload.no_vowel_discount = 0 ],
          RevealTx(twenty, BLOCKSTACK_VERSION, S, R),
          ReadyTx(apps, R),
          ReadyTx(apps, S),
          ReadyTx(shop, R),
          ReadyTx(test, R) }

----------------------------------------------------------------------------
(* The state after construction: the "test" namespace is READY, R owns     *)
(* MAX_NAMES_PER_SENDER - 1 names in it and S owns two; one name preorder  *)
(* (sent by R) and one namespace preorder (sent by S) are a block short of *)
(* expiring.                                                               *)

NameRec(name, owner, value_hash) ==
    [ name |-> name, value_hash |-> value_hash, sender |-> owner,
      sender_pubkey |-> pubkey_of(owner), address |-> script_hex_to_address(owner),
      last_renewed |-> StartBlock - BLOCKS_PER_DAY, revoked |-> FALSE,
      op |-> NAME_REGISTRATION, vtxindex |-> 1,
      consensus_hash |-> snapshot(StartBlock - BLOCKS_PER_DAY) ]

InitNames ==
    [ n \in BulkNames \cup { alice, bob } |->
        IF n \in BulkNames THEN NameRec(n, R, None)
        ELSE IF n = alice THEN NameRec(n, S, "value_alice")
        ELSE NameRec(n, S, "value_bob") ]

InitNamespaces ==
    test :> [ namespace_id |-> test, op |-> NAMESPACE_READY, sender |-> T,
              recipient |-> T, sender_pubkey |-> pubkey_of(T),
              address |-> script_hex_to_address(T), lifetime |-> BLOCKS_PER_YEAR,
              coeff |-> 4, base |-> 4, buckets |-> [ i \in 1..16 |-> 1 ],
              nonalpha_discount |-> 1, no_vowel_discount |-> 1,
              version |-> BLOCKSTACK_VERSION, vtxindex |-> 1,
              block_number |-> StartBlock - BLOCKS_PER_DAY - 2,
              reveal_block |-> StartBlock - BLOCKS_PER_DAY - 2,
              ready_block |-> StartBlock - BLOCKS_PER_DAY - 1 ]

OldPreorder(opcode, preorder_hash, sender, expire) ==
    [ preorder_hash |-> preorder_hash,
      consensus_hash |-> snapshot(StartBlock - expire),
      sender |-> sender, sender_pubkey |-> pubkey_of(sender),
      address |-> script_hex_to_address(sender),
      block_number |-> StartBlock - expire + 1, op |-> opcode, vtxindex |-> 1,
      op_fee |-> 4 * SATOSHIS_PER_BTC ]

\* the daemon processes
PIDS == { 1, 2 }

\* times one operator runs `blockstackd start`
MaxRuns == 2

\* polls in a row for which bitcoind stays out of reach
MaxOutage == 10

\* delay = 1.0 and the cap of 300 seconds in get_index_range, in milliseconds
INITIAL_DELAY == 1000
MAX_DELAY == 300000

\* exit statuses of a process ended by SIGTERM and by SIGKILL
SIGTERMED == 128 + 15
SIGKILLED == 128 + 9

INDEXING_ERROR == "Indexing blockchain"

\* config.NUM_CONFIRMATIONS: how far behind the chain tip the indexer stays
NUM_CONFIRMATIONS == 6

\* a process that has not been started yet
Shell ==
    [ pc |-> "shell", status |-> {}, prev |-> {}, run |-> 0, sigint |-> FALSE,
      delay |-> INITIAL_DELAY, waits |-> << >>, range |-> {}, began |-> {} ]

\* the chain tip below which the block b has its confirmations
Confirming(b) == b + NUM_CONFIRMATIONS

\* no `blockstackd stop` is under way
NoStop == [ pc |-> "idle", pid |-> {}, clean |-> FALSE ]

\* no operator at this terminal
Absent == [ Shell EXCEPT !.pc = "absent" ]

\* virtualchain.get_first_block_id
FirstBlock == StartBlock

\* the last block a database under test may reach
LastRebuilt == FirstBlock + MaxBlocks - 1

\* what a block of an untrusted database may hold
BlockOps == { << >>, << "x" >>, << "x", "y" >> }

\* the operations of the live run, block by block
LiveOps == [ b \in FirstBlock..LastRebuilt |-> IF b = FirstBlock THEN << "x" >> ELSE << >> ]

\* the state of a database nothing was fed to
GENESIS == << >>

\* no rebuild is under way
NoRebuild ==
    [ pc |-> "idle", verify |-> FALSE, resume |-> FALSE, lastblock |-> {},
      resumed_from |-> {}, start_block |-> FirstBlock,
      target_block_id |-> FirstBlock, untrusted_db |-> LiveOps,
      trusted_consensus_hash |-> GENESIS, block_id |-> FirstBlock,
      working_db |-> GENESIS, applied |-> << >>, consensus_hashes |-> << >>,
      ret |-> {}, verified |-> {} ]

\* no daemon: the pipeline is driven block by block
InitHost ==
    /\ calls = << >>
    /\ rebuild = NoRebuild
    /\ stop = NoStop
    /\ pidfile = {}
    /\ indexing = FALSE
    /\ proc = [ p \in PIDS |-> Absent ]
    /\ outage = 0
    /\ tip = Confirming(StartBlock + MaxBlocks - 1)

InitDB ==
    /\ block = StartBlock
    /\ phase = "parse"
    /\ vtx = 0
    /\ txs = << >>
    /\ ops = << >>
    /\ queue = << >>
    /\ checked_ops = << >>
    /\ ci = 0
    /\ stream = << >>
    /\ name_records = InitNames
    /\ preorders = { OldPreorder(NAME_PREORDER, OldHash, R, NAME_PREORDER_EXPIRE) }
    /\ namespace_preorders =
          { OldPreorder(NAMESPACE_PREORDER,
                        hash_name(shop, S, script_hex_to_address(R)), S,
                        NAMESPACE_PREORDER_EXPIRE) }
    /\ namespaces = InitNamespaces
    /\ consensus_hashes =
          [ b \in (StartBlock - max_preorder_age - 1)..(StartBlock - 1) |-> snapshot(b) ]
    /\ saved = << name_records, preorders, namespace_preorders, namespaces >>

Init == testset = FALSE /\ InitHost /\ InitDB

InitNS == testset \in BOOLEAN /\ InitHost /\ InitDB

----------------------------------------------------------------------------
(* The driver (virtualchain), after spec 2 and 4.3: parse the block's      *)
(* transactions, check every operation in the canonical order against the  *)
(* state of the previous block and the operations already accepted, commit *)
(* the accepted ones, expire, snapshot, save.                              *)

\* a transaction carrying an operation is parsed
ParseTx(tx) ==
    /\ phase = "parse"
    /\ block < StartBlock + MaxBlocks
    /\ vtx < MaxTxs
    /\ vtx' = vtx + 1
    /\ txs' = Append(txs, tx)
    /\ LET parsed == db_parse(block, tx.opcode, tx.payload, tx.senders,
                              tx.inputs, tx.outputs)
       IN  ops' = IF parsed = {} THEN ops
                  ELSE Append(ops, Update(The(parsed),
                                          tx_extract(tx.opcode, block, vtx')))
    /\ UNCHANGED << host_vars, block, phase, queue, checked_ops, ci, stream,
                    db_vars, consensus_hashes, saved >>

\* the operations of one opcode, in transaction order
RECURSIVE in_opcode_order(_, _)
in_opcode_order(all_ops, i) ==
    IF i > Len(OPCODES) THEN << >>
    ELSE SelectSeq(all_ops, LAMBDA o : o.op = OPCODES[i])
         \o in_opcode_order(all_ops, i + 1)

\* get_op_processing_order returns None: the order of OPCODES, then vtxindex
ProcessOps ==
    /\ phase = "parse"
    /\ block < StartBlock + MaxBlocks
    /\ phase' = "process"
    /\ queue' = in_opcode_order(ops, 1)
    /\ UNCHANGED << host_vars, block, vtx, txs, ops, checked_ops, ci, stream,
                    db_vars, consensus_hashes, saved >>

\* db_check on the next operation of the block
CheckOp ==
    /\ phase = "process"
    /\ queue # << >>
    /\ LET op == Head(queue)
           result == db_check(block, checked_ops, op.op, op)
       IN  checked_ops' = IF result.rc THEN Append(checked_ops, result.nameop)
                          ELSE checked_ops
    /\ queue' = Tail(queue)
    /\ UNCHANGED << host_vars, block, phase, vtx, txs, ops, ci, stream,
                    db_vars, consensus_hashes, saved >>

commit_namespace_preorder(nameop) == Restrict(nameop, PREORDER_FIELDS)

is_transfer(nameop) ==
    nameop.op \in { NAME_TRANSFER \o TRANSFER_KEEP_DATA,
                    NAME_TRANSFER \o TRANSFER_REMOVE_DATA }

\* the record db_commit returns for an accepted operation
new_namerec(nameop) ==
    IF nameop.op = NAME_PREORDER THEN commit_preorder(nameop)
    ELSE IF is_transfer(nameop) THEN commit_transfer(nameop)
    ELSE IF nameop.op = NAMESPACE_PREORDER THEN commit_namespace_preorder(nameop)
    ELSE IF nameop.op = NAMESPACE_REVEAL THEN commit_namespace_reveal(nameop)
    ELSE commit_namespace_ready(nameop)

\* virtualchain_hooks.db_commit with an operation: the next accepted
\* operation is applied and its record is handed to db_serialize
CommitOp ==
    /\ phase = "process"
    /\ queue = << >>
    /\ ci < Len(checked_ops)
    /\ ci' = ci + 1
    /\ LET nameop == checked_ops[ci + 1]
       IN  /\ preorders' = IF nameop.op = NAME_PREORDER
                           THEN preorders \cup { new_namerec(nameop) }
                           ELSE preorders
           /\ name_records' = IF is_transfer(nameop)
                              THEN Put(name_records, nameop.name, new_namerec(nameop))
                              ELSE name_records
           /\ namespace_preorders' =
                 IF nameop.op = NAMESPACE_PREORDER
                 THEN namespace_preorders \cup { new_namerec(nameop) }
                 ELSE IF nameop.op = NAMESPACE_REVEAL
                 THEN { p \in namespace_preorders :
                          p.preorder_hash # nameop.preorder_hash }
                 ELSE namespace_preorders
           /\ namespaces' = IF nameop.op \in { NAMESPACE_REVEAL, NAMESPACE_READY }
                            THEN Put(namespaces, nameop.namespace_id, new_namerec(nameop))
                            ELSE namespaces
           /\ stream' = Append(stream, new_namerec(nameop))
    /\ UNCHANGED << host_vars, block, phase, vtx, txs, ops, queue, checked_ops,
                    consensus_hashes, saved >>

----------------------------------------------------------------------------
(* Strings and their order.  A string is the sequence of its characters;   *)
(* Python compares strings character by character, by code.                *)

\* the code of a character.  The scripts and addresses a hash is made of
\* stand for the content of its digest and have codes of their own.
CODES ==
    ("!" :> 33) @@ ("#" :> 35) @@ ("&" :> 38) @@ ("*" :> 42) @@ ("+" :> 43)
    @@ ("-" :> 45) @@ ("." :> 46) @@ ("0" :> 48) @@ ("1" :> 49)
    @@ ("2" :> 50) @@ ("3" :> 51) @@ ("4" :> 52) @@ ("5" :> 53)
    @@ ("6" :> 54) @@ ("7" :> 55) @@ ("8" :> 56) @@ ("9" :> 57)
    @@ (":" :> 58) @@ (";" :> 59) @@ (">" :> 62) @@ ("?" :> 63)
    @@ ("R" :> 82) @@ ("S" :> 83) @@ ("T" :> 84) @@ ("_" :> 95)
    @@ ("a" :> 97) @@ ("b" :> 98) @@ ("c" :> 99) @@ ("d" :> 100)
    @@ ("e" :> 101) @@ ("f" :> 102) @@ ("g" :> 103) @@ ("h" :> 104)
    @@ ("i" :> 105) @@ ("j" :> 106) @@ ("k" :> 107) @@ ("l" :> 108)
    @@ ("m" :> 109) @@ ("n" :> 110) @@ ("o" :> 111) @@ ("p" :> 112)
    @@ ("q" :> 113) @@ ("r" :> 114) @@ ("s" :> 115) @@ ("t" :> 116)
    @@ ("u" :> 117) @@ ("v" :> 118) @@ ("w" :> 119) @@ ("x" :> 120)
    @@ ("y" :> 121) @@ ("z" :> 122) @@ ("~" :> 126) @@ ("addr_R" :> 256)
    @@ ("addr_S" :> 257) @@ ("addr_T" :> 258)

ord(c) == CODES[c]

\* the character of a code; "byte" for a code that is none of a character
chr(b) ==
    IF \E c \in DOMAIN CODES : CODES[c] = b
    THEN CHOOSE c \in DOMAIN CODES : CODES[c] = b
    ELSE "byte"

\* cmp( a, b ) < 0 on strings
RECURSIVE str_lt(_, _)
str_lt(a, b) ==
    IF Len(b) = 0 THEN FALSE
    ELSE IF Len(a) = 0 THEN TRUE
    ELSE IF ord(Head(a)) < ord(Head(b)) THEN TRUE
    ELSE IF ord(Head(a)) > ord(Head(b)) THEN FALSE
    ELSE str_lt(Tail(a), Tail(b))

\* an item of an expiration list with the string it is in the database
Keyed(str, item) == [ str |-> str, item |-> item ]

\* the fully-qualified name
name_str(name) == name[1] \o << "." >> \o name[2]

\* the digest of a name preorder and of a namespace preorder
name_hash_str(h) == name_str(h[1]) \o << h[2], h[3] >>
namespace_hash_str(h) == h[1] \o << h[2], h[3] >>

\* x put at its place in the sorted list l
RECURSIVE insert_sorted(_, _)
insert_sorted(x, l) ==
    IF l = << >> THEN << x >>
    ELSE IF str_lt(Head(l).str, x.str) THEN << Head(l) >> \o insert_sorted(x, Tail(l))
    ELSE << x >> \o l

RECURSIVE sort_from(_, _)
sort_from(l, i) ==
    IF i > Len(l) THEN << >> ELSE insert_sorted(l[i], sort_from(l, i + 1))

\* the list left as the database returned it
list_unsorted(l) == l

\* list.sort()
list_sort(l) == sort_from(l, 1)

\* str(len(items)) + ":" + ",".join(items): the count and the items in the
\* order they are joined in (no item holds a comma)
count_and_join(l) == [ count |-> Len(l), items |-> [ i \in 1..Len(l) |-> l[i].item ] ]

\* the lists in which a database query may return the members of a set
Arrangements(set) ==
    { l \in [ 1..Cardinality(set) -> set ] : { l[i] : i \in 1..Len(l) } = set }

\* the lists of a dict of lists, in the order of a list of its keys
RECURSIVE concat_values(_, _)
concat_values(keys, dict) ==
    IF keys = << >> THEN << >>
    ELSE dict[Head(keys)] \o concat_values(Tail(keys), dict)

\* namedb.commit_*_expire_all( block_id )
expired_names(block_id) ==
    { n \in DOMAIN name_records : is_name_expired(n, block_id) }

expired_preorders(block_id) ==
    { p \in preorders : block_id >= p.block_number + NAME_PREORDER_EXPIRE }

expired_namespace_preorders(block_id) ==
    { p \in namespace_preorders :
        block_id >= p.block_number + NAMESPACE_PREORDER_EXPIRE }

expired_namespace_reveals(block_id) ==
    { id \in DOMAIN namespaces :
        /\ namespaces[id].op = NAMESPACE_REVEAL
        /\ block_id >= namespaces[id].reveal_block + NAMESPACE_REVEAL_EXPIRE }

\* the names that go with an expired namespace reveal
names_of_namespace(id, gone) ==
    { n \in (DOMAIN name_records) \ gone : get_namespace_from_name(n) = id }

\* virtualchain_hooks.db_commit with op = None, lines 516-535: the record
\* that encompasses the expirations, from the lists the database returned
virtual_expire(names, name_hashes, namespace_hashes, namespaces_dict, namespace_keys) ==
    LET expired_namespace_ids == namespace_keys
        merged == names \o concat_values(expired_namespace_ids, namespaces_dict)
        expired_names_l == list_sort([ i \in 1..Len(merged) |->
                              Keyed(name_str(merged[i]), merged[i]) ])
        expired_name_hashes_l == list_sort([ i \in 1..Len(name_hashes) |->
                              Keyed(name_hash_str(name_hashes[i]), name_hashes[i]) ])
        expired_namespace_hashes_l == list_sort([ i \in 1..Len(namespace_hashes) |->
                              Keyed(namespace_hash_str(namespace_hashes[i]),
                                    namespace_hashes[i]) ])
        expired_namespace_ids_l == list_sort([ i \in 1..Len(expired_namespace_ids) |->
                              Keyed(expired_namespace_ids[i], expired_namespace_ids[i]) ])
    IN  [ opcode |-> "VIRTUAL_EXPIRE",
          expired_names |-> count_and_join(expired_names_l),
          expired_name_hashes |-> count_and_join(expired_name_hashes_l),
          expired_namespace_hashes |-> count_and_join(expired_namespace_hashes_l),
          expired_namespace_ids |-> count_and_join(expired_namespace_ids_l) ]

\* virtualchain_hooks.db_commit with op = None: the block's expirations,
\* reported in one VIRTUAL_EXPIRE record; the database returns the expired
\* items of each kind in an order of its own
FinalCommit ==
    /\ phase = "process"
    /\ queue = << >>
    /\ ci = Len(checked_ops)
    /\ phase' = "snapshot"
    /\ LET names      == expired_names(block)
           pre        == expired_preorders(block)
           ns_pre     == expired_namespace_preorders(block)
           ns_reveals == expired_namespace_reveals(block)
           ns_names   == UNION { names_of_namespace(id, names) : id \in ns_reveals }
       IN  /\ name_records' =
                 [ n \in (DOMAIN name_records) \ (names \cup ns_names) |->
                     name_records[n] ]
           /\ preorders' = preorders \ pre
           /\ namespace_preorders' = namespace_preorders \ ns_pre
           /\ namespaces' =
                 [ id \in (DOMAIN namespaces) \ ns_reveals |-> namespaces[id] ]
           /\ \E names_l \in Arrangements(names) :
              \E name_hashes_l \in Arrangements({ p.preorder_hash : p \in pre }) :
              \E namespace_hashes_l \in Arrangements({ p.preorder_hash : p \in ns_pre }) :
              \E namespace_keys \in Arrangements(ns_reveals) :
              \E namespaces_dict \in
                    { d \in [ ns_reveals ->
                                UNION { Arrangements(names_of_namespace(id, names)) :
                                          id \in ns_reveals } ] :
                        \A id \in ns_reveals :
                           d[id] \in Arrangements(names_of_namespace(id, names)) } :
                 stream' = Append(stream,
                              virtual_expire(names_l, name_hashes_l, namespace_hashes_l,
                                             namespaces_dict, namespace_keys))
    /\ UNCHANGED << host_vars, block, vtx, txs, ops, queue, checked_ops, ci,
                    consensus_hashes, saved >>

\* config.OPCODE_NAMES (NAME_RENEWAL is NAME_REGISTRATION)
OPCODE_NAMES ==
    [ c \in { NAME_PREORDER, NAME_REGISTRATION, NAME_UPDATE, NAME_TRANSFER,
              NAME_REVOKE, NAME_IMPORT, NAMESPACE_PREORDER, NAMESPACE_REVEAL,
              NAMESPACE_READY, ANNOUNCE } |->
        IF c = NAME_PREORDER THEN "NAME_PREORDER"
        ELSE IF c = NAME_REGISTRATION THEN "NAME_REGISTRATION"
        ELSE IF c = NAME_UPDATE THEN "NAME_UPDATE"
        ELSE IF c = NAME_TRANSFER THEN "NAME_TRANSFER"
        ELSE IF c = NAME_REVOKE THEN "NAME_REVOKE"
        ELSE IF c = NAME_IMPORT THEN "NAME_IMPORT"
        ELSE IF c = NAMESPACE_PREORDER THEN "NAMESPACE_PREORDER"
        ELSE IF c = NAMESPACE_REVEAL THEN "NAMESPACE_REVEAL"
        ELSE IF c = NAMESPACE_READY THEN "NAMESPACE_READY"
        ELSE "ANNOUNCE" ]

\* operations.SERIALIZE_FIELDS: the consensus fields of an opcode (spec 4.4),
\* for the opcodes whose commit is modelled
SERIALIZE_FIELDS ==
    [ name \in { "NAME_PREORDER", "NAME_TRANSFER", "NAMESPACE_PREORDER",
                 "NAMESPACE_REVEAL", "NAMESPACE_READY" } |->
        IF name \in { "NAME_PREORDER", "NAMESPACE_PREORDER" }
        THEN { "preorder_hash", "consensus_hash", "sender", "sender_pubkey",
               "address", "block_number", "op", "vtxindex", "op_fee" }
        ELSE IF name = "NAME_TRANSFER"
        THEN { "name", "value_hash", "sender", "sender_pubkey", "address",
               "op", "vtxindex" }
        ELSE { "namespace_id", "preorder_hash", "version", "sender", "sender_pubkey",
               "address", "recipient", "recipient_address", "block_number",
               "reveal_block", "ready_block", "op", "vtxindex", "lifetime", "coeff",
               "base", "buckets", "nonalpha_discount", "no_vowel_discount" } ]

\* what Python gives for a source file that cannot be compiled
SyntaxError == [ raised |-> "SyntaxError" ]

\* virtualchain_hooks.db_serialize.  The statement that joins the values,
\*     field_values = ",".join( str(nameop[field]) for field in fields ] )
\* closes a bracket it never opened: it is a syntax error, so there is no
\* string for the function to return.  The result is the set holding what
\* the function gives, {} for None.
db_serialize(op, nameop) ==
    LET virtual == "opcode" \in DOMAIN nameop /\ nameop.opcode = "VIRTUAL_EXPIRE"
    IN  IF ~virtual /\ op \notin DOMAIN OPCODE_NAMES THEN {}
        ELSE IF ~virtual /\ OPCODE_NAMES[op] \notin DOMAIN SERIALIZE_FIELDS THEN {}
        ELSE { SyntaxError }

\* the consensus hash of the block is stored
Snapshot ==
    /\ phase = "snapshot"
    /\ phase' = "save"
    /\ consensus_hashes' = Put(consensus_hashes, block, snapshot(block))
    /\ UNCHANGED << host_vars, block, vtx, txs, ops, queue, checked_ops, ci, stream,
                    db_vars, saved >>

\* virtualchain_hooks.db_save, then the driver moves to the next block
Save ==
    /\ phase = "save"
    /\ saved' = IF Len(checked_ops) > 0
                THEN << name_records, preorders, namespace_preorders, namespaces >>
                ELSE saved
    /\ block' = block + 1
    /\ phase' = "parse"
    /\ vtx' = 0
    /\ txs' = << >>
    /\ ops' = << >>
    /\ checked_ops' = << >>
    /\ ci' = 0
    /\ stream' = << >>
    /\ UNCHANGED << host_vars, queue, db_vars, consensus_hashes >>

Engine == ProcessOps \/ CheckOp \/ CommitOp \/ FinalCommit \/ Snapshot \/ Save

\* a block of the name chain receives a transaction
ParseNameTx == \E tx \in NameTxs(block) : ParseTx(tx)

Next == ParseNameTx \/ Engine

Spec == Init /\ [][Next]_vars

\* a block of the namespace chain receives a transaction
ParseNamespaceTx == \E tx \in NamespaceTxs(block) : ParseTx(tx)

NextNS == ParseNamespaceTx \/ Engine

SpecNS == InitNS /\ [][NextNS]_vars

----------------------------------------------------------------------------
(* A database in which much is about to expire: two names of "test" were   *)
(* last renewed a namespace lifetime ago, two name preorders and two       *)
(* namespace preorders are a block short of their age limit, and the       *)
(* namespaces "shop" and "apps" were revealed a year ago, never made       *)
(* ready, and hold imported names.                                         *)

amy == << << "a", "m", "y" >>, test >>
zed == << << "z", "e", "d" >>, test >>
ale == << << "a", "l", "e" >>, shop >>
tea == << << "t", "e", "a" >>, shop >>
box == << << "b", "o", "x" >>, apps >>

StaleNames == { amy, zed }
ImportedNames == { ale, tea, box }

ExpireNames ==
    [ n \in DOMAIN InitNames \cup StaleNames \cup ImportedNames |->
        IF n \in DOMAIN InitNames THEN InitNames[n]
        ELSE IF n \in StaleNames
        THEN [ NameRec(n, T, None) EXCEPT !.last_renewed = StartBlock - BLOCKS_PER_YEAR ]
        ELSE [ NameRec(n, T, None) EXCEPT !.op = NAME_IMPORT ] ]

RevealedNamespace(namespace_id) ==
    [ namespace_id |-> namespace_id, op |-> NAMESPACE_REVEAL, sender |-> S,
      recipient |-> T, sender_pubkey |-> pubkey_of(S),
      address |-> script_hex_to_address(S), lifetime |-> BLOCKS_PER_YEAR,
      coeff |-> 4, base |-> 4, buckets |-> [ i \in 1..16 |-> 1 ],
      nonalpha_discount |-> 1, no_vowel_discount |-> 1,
      version |-> BLOCKSTACK_VERSION, vtxindex |-> 1,
      block_number |-> StartBlock + 1 - NAMESPACE_REVEAL_EXPIRE,
      reveal_block |-> StartBlock + 1 - NAMESPACE_REVEAL_EXPIRE,
      ready_block |-> 0 ]

ExpireNamespaces ==
    [ id \in { test, shop, apps } |->
        IF id = test THEN InitNamespaces[test] ELSE RevealedNamespace(id) ]

InitExpire ==
    /\ testset = FALSE
    /\ InitHost
    /\ block = StartBlock
    /\ phase = "parse"
    /\ vtx = 0
    /\ txs = << >>
    /\ ops = << >>
    /\ queue = << >>
    /\ checked_ops = << >>
    /\ ci = 0
    /\ stream = << >>
    /\ name_records = ExpireNames
    /\ preorders =
          { OldPreorder(NAME_PREORDER, OldHash, R, NAME_PREORDER_EXPIRE),
            OldPreorder(NAME_PREORDER, hash_name(alice, T, script_hex_to_address(T)),
                        T, NAME_PREORDER_EXPIRE) }
    /\ namespace_preorders =
          { OldPreorder(NAMESPACE_PREORDER,
                        hash_name(shop, S, script_hex_to_address(R)), S,
                        NAMESPACE_PREORDER_EXPIRE),
            OldPreorder(NAMESPACE_PREORDER,
                        hash_name(apps, T, script_hex_to_address(R)), T,
                        NAMESPACE_PREORDER_EXPIRE) }
    /\ namespaces = ExpireNamespaces
    /\ consensus_hashes =
          [ b \in (StartBlock - max_preorder_age - 1)..(StartBlock - 1) |-> snapshot(b) ]
    /\ saved = << name_records, preorders, namespace_preorders, namespaces >>

\* the transactions a block of this chain may carry: two well-formed ones and
\* payloads the parser has to turn down
EdgeTxs(b) ==
    LET recent == snapshot(b - 1)
        hcarol == hash_name(carol, S, script_hex_to_address(S))
        burn1  == << Pay(BURN_SCRIPT, 1) >>
        preorder == PreorderTx(NAME_PREORDER, hcarol, recent, S, burn1)
        transfer == TransferTx(TRANSFER_KEEP_DATA, alice, recent, S, T)
        reveal   == RevealTx(<< >>, BLOCKSTACK_VERSION, S, R)
    IN  { preorder,
          transfer,
          [ preorder EXCEPT !.opcode = "x" ],
          [ preorder EXCEPT !.payload.len = MIN_OP_LENGTHS.preorder - 1 ],
          [ preorder EXCEPT !.payload.len = MIN_OP_LENGTHS.preorder + 1 ],
          [ transfer EXCEPT !.payload.len = MIN_OP_LENGTHS.transfer - 1 ],
          [ transfer EXCEPT !.payload.len = MIN_OP_LENGTHS.transfer ],
          [ transfer EXCEPT !.payload.len = MIN_OP_LENGTHS.transfer + 2 ],
          [ transfer EXCEPT !.payload.disposition = "x" ],
          reveal }

\* a block of this chain receives a transaction
ParseEdgeTx == \E tx \in EdgeTxs(block) : ParseTx(tx)

NextExpire == ParseEdgeTx \/ Engine

SpecExpire == InitExpire /\ [][NextExpire]_vars

----------------------------------------------------------------------------
(* Transfers of names in every condition: active, about to expire, revoked, *)
(* imported into a namespace that is not ready, and not registered at all.  *)

rex == << << "r", "e", "x" >>, test >>

TransferNames ==
    [ n \in DOMAIN ExpireNames \cup { rex } |->
        IF n = rex THEN [ NameRec(n, S, None) EXCEPT !.revoked = TRUE ]
        ELSE ExpireNames[n] ]

\* the transfers a block at height b may carry
TransferTxs(b) ==
    LET recent == snapshot(b - 1)
    IN  { TransferTx(TRANSFER_KEEP_DATA, alice, recent, S, T),
          TransferTx(TRANSFER_KEEP_DATA, alice, snapshot(b - 2), S, R),
          TransferTx(TRANSFER_KEEP_DATA, alice, recent, S, S),
          TransferTx(TRANSFER_REMOVE_DATA, amy, recent, T, S),
          TransferTx(TRANSFER_KEEP_DATA, ale, recent, T, S),
          TransferTx(TRANSFER_KEEP_DATA, rex, recent, S, T),
          TransferTx(TRANSFER_REMOVE_DATA, carol, recent, S, T) }

InitTransfer ==
    /\ testset = FALSE
    /\ InitHost
    /\ block = StartBlock
    /\ phase = "parse"
    /\ vtx = 0
    /\ txs = << >>
    /\ ops = << >>
    /\ queue = << >>
    /\ checked_ops = << >>
    /\ ci = 0
    /\ stream = << >>
    /\ name_records = TransferNames
    /\ preorders = {}
    /\ namespace_preorders = {}
    /\ namespaces = ExpireNamespaces
    /\ consensus_hashes =
          [ b \in (StartBlock - max_preorder_age - 1)..(StartBlock - 1) |-> snapshot(b) ]
    /\ saved = << name_records, preorders, namespace_preorders, namespaces >>

\* a block receives a transfer
ParseTransferTx == \E tx \in TransferTxs(block) : ParseTx(tx)

\* the namespace operations a block of this chain may carry: the end of the
\* import of "shop" by its revealer and by another sender, and a second
\* reveal of it
ImportTxs ==
    { ReadyTx(shop, T), ReadyTx(shop, R), RevealTx(shop, BLOCKSTACK_VERSION, S, R) }

\* a block receives a namespace operation
ParseImportTx == \E tx \in ImportTxs : ParseTx(tx)

NextTransfer == ParseTransferTx \/ ParseImportTx \/ Engine

SpecTransfer == InitTransfer /\ [][NextTransfer]_vars

----------------------------------------------------------------------------
(* The wire format.  A binary string is the sequence of its bytes (0..255),  *)
(* a hexadecimal string the sequence of its digits (0..15), a text the       *)
(* sequence of its characters.                                               *)

Min(a, b) == IF a < b THEN a ELSE b

\* s[i:j] for 0 <= i
slice(s, i, j) ==
    IF Min(j, Len(s)) <= i THEN << >> ELSE SubSeq(s, i + 1, Min(j, Len(s)))

\* s[i:]
slice_from(s, i) == slice(s, i, Len(s))

\* a text as the binary string of its characters' codes
str_bytes(s) == [ k \in 1..Len(s) |-> ord(s[k]) % 256 ]

\* a binary string read as a text
bytes_str(b) == [ k \in 1..Len(b) |-> chr(b[k]) ]

\* binascii.hexlify
hexlify(b) ==
    [ k \in 1..(2 * Len(b)) |->
        IF k % 2 = 1 THEN b[(k + 1) \div 2] \div 16 ELSE b[k \div 2] % 16 ]

\* what is no hexadecimal digit: the sign of a negative number
MINUS == 0 - 1

\* utilitybelt.is_hex
is_hex(s) == \A k \in 1..Len(s) : s[k] \in 0..15

\* binascii.unhexlify: {} when it raises
unhexlify(s) ==
    IF Len(s) % 2 # 0 \/ ~is_hex(s) THEN {}
    ELSE { [ k \in 1..(Len(s) \div 2) |-> 16 * s[2 * k - 1] + s[2 * k] ] }

\* int( s, 16 )
RECURSIVE int16(_)
int16(s) ==
    IF s = << >> THEN 0
    ELSE 16 * int16(SubSeq(s, 1, Len(s) - 1)) + s[Len(s)]

\* "%x" % v for v >= 0
RECURSIVE hex_digits(_)
hex_digits(v) ==
    IF v < 16 THEN << v >> ELSE hex_digits(v \div 16) \o << v % 16 >>

\* "%0.<width>x" % v: at least width digits, a sign before them
format_x(v, width) ==
    LET digits == hex_digits(IF v < 0 THEN 0 - v ELSE v)
        zeros  == [ k \in 1..(width - Len(digits)) |-> 0 ]
    IN  (IF v < 0 THEN << MINUS >> ELSE << >>) \o zeros \o digits

\* v >= 2^bits or v < -(2^bits); no integer of the model is outside 32 bits
out_of_width(v, bits) ==
    bits < 31 /\ (v >= 2^bits \/ v < 0 - 2^bits)

\* operations/namespacereveal.serialize_int: {} when it raises
serialize_int(int_field, numbytes) ==
    IF out_of_width(int_field, numbytes * 8) THEN {}
    ELSE LET hex_str == format_x(int_field, numbytes * 2)
         IN  { IF Len(hex_str) % 2 # 0 THEN << 0 >> \o hex_str ELSE hex_str }

\* the texts of a list, one after the other
RECURSIVE join(_)
join(l) == IF l = << >> THEN << >> ELSE Head(l) \o join(Tail(l))

\* a serialization with the two discounts exchanged
serialize_discounts_swapped(nonalpha_discount, no_vowel_discount) ==
    format_x(no_vowel_discount, 1) \o format_x(nonalpha_discount, 1)

\* operations/namespacereveal.serialize_discounts
serialize_discounts(nonalpha_discount, no_vowel_discount) ==
    format_x(nonalpha_discount, 1) \o format_x(no_vowel_discount, 1)

\* operations/namespacereveal.serialize_buckets
serialize_buckets(bucket_exponents) ==
    join([ i \in 1..Len(bucket_exponents) |-> format_x(bucket_exponents[i], 1) ])

\* config.NAME_OPCODES: the opcode of a name in a readable script
NAME_OPCODES ==
    [ n \in { OPCODE_NAMES[c] : c \in DOMAIN OPCODE_NAMES } |->
        CHOOSE c \in DOMAIN OPCODE_NAMES : OPCODE_NAMES[c] = n ]

MAGIC_BYTES_MAINSET == << "i", "d" >>
MAGIC_BYTES_TESTSET == << "e", "g" >>
NAME_SCHEME == MAGIC_BYTES_MAINSET \o << NAME_REGISTRATION >>

\* scripts.blockstack_script_to_hex of the script "<opcode> 0x<literal> ...":
\* {} when it raises
blockstack_script_to_hex(script) ==
    LET hex_script == format_x(ord(NAME_OPCODES[script.opcode]), 2)
                      \o join(script.literals)
    IN  IF Len(hex_script) % 2 # 0 THEN {} ELSE { hex_script }

\* scripts.add_magic_bytes
add_magic_bytes(hex_script) ==
    hexlify(str_bytes(IF testset THEN MAGIC_BYTES_TESTSET ELSE MAGIC_BYTES_MAINSET))
    \o hex_script

\* the hexadecimal digest of a hash: the text that was hashed, repeated to
\* the length of the digest
digest(s, numbytes) ==
    hexlify([ k \in 1..numbytes |-> ord(s[((k - 1) % Len(s)) + 1]) % 256 ])

\* hashing.hash_name as the builders use it
hash_name_hex(name, script_pubkey, register_addr) ==
    digest(name_hash_str(hash_name(name, script_pubkey, register_addr)),
           LENGTHS.preorder_name_hash)

\* hashing.hash256_trunc128 as the builders use it
hash256_trunc128_hex(name) == digest(name_str(name), LENGTHS.name_hash)

\* scripts.is_name_valid, on the text of a fully-qualified name
is_name_valid(fqn) ==
    IF count(fqn, ".") # 1 THEN FALSE
    ELSE LET dot == CHOOSE i \in 1..Len(fqn) : fqn[i] = "."
             name == SubSeq(fqn, 1, dot - 1)
             namespace_id == SubSeq(fqn, dot + 1, Len(fqn))
         IN  IF Len(name) = 0 \/ Len(namespace_id) = 0 THEN FALSE
             ELSE IF ~is_b40(name) \/ Contains(name, "+") \/ Contains(name, ".")
             THEN FALSE
             ELSE IF ~is_b40(namespace_id) \/ Contains(namespace_id, "+")
                     \/ Contains(namespace_id, ".")
             THEN FALSE
             ELSE IF Len(hexlify(str_bytes(fqn))) > LENGTHS.blockchain_id_name * 2
             THEN FALSE
             ELSE TRUE

\* the tests operations/preorder.build makes of a name it is to hash: FALSE
\* when it raises
preorder_name_check(name) ==
    /\ ~(~is_b40(name) \/ Contains(name, "+") \/ count(name, ".") > 1)
    /\ ~(Len(NAME_SCHEME) + Len(name) > LENGTHS.blockchain_id_name)

\* operations/preorder.build: {} when it raises; name_hash is {} for None
build_preorder(name, script_pubkey, register_addr, consensus_hash, name_hash) ==
    IF name_hash = {} /\ ~preorder_name_check(name_str(name)) THEN {}
    ELSE LET hash == IF name_hash = {}
                     THEN hash_name_hex(name, script_pubkey, register_addr)
                     ELSE The(name_hash)
             script == [ opcode |-> "NAME_PREORDER",
                         literals |-> << hash, consensus_hash >> ]
         IN  { add_magic_bytes(hex_script) :
                   hex_script \in blockstack_script_to_hex(script) }

\* a builder that writes the other disposition
build_transfer_other_disposition(name, keepdata, consensus_hash) ==
    IF ~transfer_sanity_check({ name_str(name) }, consensus_hash) THEN {}
    ELSE LET data_disposition == IF keepdata THEN TRANSFER_REMOVE_DATA
                                 ELSE TRANSFER_KEEP_DATA
             script == [ opcode |-> "NAME_TRANSFER",
                         literals |-> << hexlify(str_bytes(<< data_disposition >>)),
                                         hash256_trunc128_hex(name),
                                         consensus_hash >> ]
         IN  { add_magic_bytes(hex_script) :
                   hex_script \in blockstack_script_to_hex(script) }

\* operations/transfer.build: {} when it raises
build_transfer(name, keepdata, consensus_hash) ==
    IF ~transfer_sanity_check({ name_str(name) }, consensus_hash) THEN {}
    ELSE LET data_disposition == IF keepdata THEN TRANSFER_KEEP_DATA
                                 ELSE TRANSFER_REMOVE_DATA
             script == [ opcode |-> "NAME_TRANSFER",
                         literals |-> << hexlify(str_bytes(<< data_disposition >>)),
                                         hash256_trunc128_hex(name),
                                         consensus_hash >> ]
         IN  { add_magic_bytes(hex_script) :
                   hex_script \in blockstack_script_to_hex(script) }

\* operations/namespacereveal.build: {} when it raises
build_namespace_reveal(namespace_id, version, lifetime, coeff, base, bucket_exponents, nonalpha_discount, no_vowel_discount) ==
    IF ~namespacereveal_sanity_check(namespace_id, version, lifetime, coeff, base,
            bucket_exponents, nonalpha_discount, no_vowel_discount)
    THEN {}
    ELSE LET life_hex    == serialize_int(lifetime, 4)
             coeff_hex   == serialize_int(coeff, 1)
             base_hex    == serialize_int(base, 1)
             version_hex == serialize_int(version, 2)
         IN  IF {} \in { life_hex, coeff_hex, base_hex, version_hex } THEN {}
             ELSE LET script ==
                          [ opcode |-> "NAMESPACE_REVEAL",
                            literals |-> << The(life_hex), The(coeff_hex), The(base_hex),
                                            serialize_buckets(bucket_exponents),
                                            serialize_discounts(nonalpha_discount,
                                                                no_vowel_discount),
                                            The(version_hex),
                                            hexlify(str_bytes(namespace_id)) >> ]
                  IN  { add_magic_bytes(hex_script) :
                            hex_script \in blockstack_script_to_hex(script) }

\* operations/namespaceready.build: {} when it raises
build_namespace_ready(namespace_id) ==
    IF ~is_b40(namespace_id) \/ Contains(namespace_id, "+")
       \/ Contains(namespace_id, ".")
    THEN {}
    ELSE IF Len(namespace_id) = 0
            \/ Len(namespace_id) > LENGTHS.blockchain_id_namespace_id
    THEN {}
    ELSE LET script == [ opcode |-> "NAMESPACE_READY",
                         literals |-> << hexlify(str_bytes(<< "." >> \o namespace_id)) >> ]
         IN  { add_magic_bytes(hex_script) :
                   hex_script \in blockstack_script_to_hex(script) }

\* the fields operations/preorder.parse cuts out of a payload
unpack_preorder(bin_payload) ==
    [ len |-> Len(bin_payload),
      preorder_hash |-> hexlify(slice(bin_payload, 0, LENGTHS.preorder_name_hash)),
      consensus_hash |-> hexlify(slice_from(bin_payload, LENGTHS.preorder_name_hash)) ]

\* the fields operations/transfer.parse cuts out of a payload
unpack_transfer(bin_payload) ==
    LET disposition_char == bytes_str(slice(bin_payload, 0, 1))
    IN  [ len |-> Len(bin_payload),
          disposition |-> IF disposition_char = << >> THEN ""
                          ELSE disposition_char[1],
          name_hash128 |-> hexlify(slice(bin_payload, 1, 1 + LENGTHS.name_hash)),
          consensus_hash |-> hexlify(slice_from(bin_payload, 1 + LENGTHS.name_hash)) ]

\* the fields operations/namespacereveal.parse cuts out of a payload that is
\* not too short
unpack_namespace_reveal(bin_payload) ==
    LET life_off     == 0
        coeff_off    == life_off + LENGTHS.blockchain_id_namespace_life
        base_off     == coeff_off + LENGTHS.blockchain_id_namespace_coeff
        bucket_off   == base_off + LENGTHS.blockchain_id_namespace_base
        discount_off == bucket_off + LENGTHS.blockchain_id_namespace_buckets
        version_off  == discount_off + LENGTHS.blockchain_id_namespace_discounts
        id_off       == version_off + LENGTHS.blockchain_id_namespace_version
        discount_hex == hexlify(slice(bin_payload, discount_off, version_off))
    IN  [ len |-> Len(bin_payload),
          lifetime |-> int16(hexlify(slice(bin_payload, life_off, coeff_off))),
          coeff |-> int16(hexlify(slice(bin_payload, coeff_off, base_off))),
          base |-> int16(hexlify(slice(bin_payload, base_off, bucket_off))),
          buckets |-> hexlify(slice(bin_payload, bucket_off, discount_off)),
          nonalpha_discount |-> discount_hex[1],
          no_vowel_discount |-> discount_hex[2],
          version |-> int16(hexlify(slice(bin_payload, version_off, id_off))),
          namespace_id |-> bytes_str(slice_from(bin_payload, id_off)) ]

\* the fields operations/namespaceready.parse cuts out of a payload
unpack_namespace_ready(bin_payload) ==
    LET first == bytes_str(slice(bin_payload, 0, 1))
    IN  [ len |-> Len(bin_payload),
          delimiter |-> IF first = << >> THEN "" ELSE first[1],
          namespace_id |-> bytes_str(slice_from(bin_payload, 1)) ]

\* the payload of an opcode as the parsers read it
unpack(opcode, bin_payload) ==
    IF opcode = NAME_PREORDER THEN unpack_preorder(bin_payload)
    ELSE IF opcode = NAME_TRANSFER THEN unpack_transfer(bin_payload)
    ELSE IF opcode = NAMESPACE_REVEAL
            /\ Len(bin_payload) >= MIN_OP_LENGTHS.namespace_reveal
    THEN unpack_namespace_reveal(bin_payload)
    ELSE IF opcode = NAMESPACE_READY THEN unpack_namespace_ready(bin_payload)
    ELSE [ len |-> Len(bin_payload) ]

\* the driver reads an OP_RETURN script: two magic bytes, the opcode, the
\* payload; {} for a script that is none of this chain
read_script(packaged_script) ==
    LET magic == IF testset THEN MAGIC_BYTES_TESTSET ELSE MAGIC_BYTES_MAINSET
    IN  { [ opcode |-> chr(data[3]), payload |-> slice_from(data, 3) ] :
            data \in { d \in unhexlify(packaged_script) :
                         Len(d) >= 3 /\ bytes_str(slice(d, 0, 2)) = magic } }

\* the operation the hooks parse out of a packaged script
parse_script(packaged_script, sender, recipient, recipient_address) ==
    UNION { parse_blockstore_op_data(m.opcode, unpack(m.opcode, m.payload),
                                     sender, recipient, recipient_address) :
              m \in read_script(packaged_script) }

\* operations/preorder.restore_delta
preorder_restore_delta(name_rec) ==
    LET name_rec_script == build_preorder(None, None, None, name_rec.consensus_hash,
                                          { name_rec.preorder_hash })
    IN  UNION { parse_preorder(unpack_preorder(slice_from(data, 3))) :
                  data \in UNION { unhexlify(s) : s \in name_rec_script } }

----------------------------------------------------------------------------
(* Operations built by a client and parsed back by the hooks.  Each step    *)
(* builds one script, records it with its arguments in txs, sends it        *)
(* through the driver and records the operation parsed out of it in ops.    *)

\* a name with a character no name may have, and one that fits a transfer
\* but not a preorder
plus_name == << << "a", "+", "b" >>, test >>
long_name == << [ i \in 1..30 |-> "a" ], test >>

CodecNames == { alice, carol, plus_name, long_name }

\* namespace ids: the shortest, the longest, and three that are none
longest_id == [ i \in 1..LENGTHS.blockchain_id_namespace_id |-> "z" ]

CodecNamespaceIds == { apps, << "a" >>, longest_id }

BadNamespaceIds == { << >>, << "a", ".", "b" >>, longest_id \o << "z" >> }

\* consensus hashes in hexadecimal, and one that is a byte short
ConsensusHexes == { digest(<< "c", "1" >>, LENGTHS.consensus_hash),
                    digest(<< "c", "2" >>, LENGTHS.consensus_hash) }

ShortConsensusHex == digest(<< "c", "3" >>, LENGTHS.consensus_hash - 1)

\* preorder hashes in hexadecimal, one that is a byte short and one that is
\* a digit short
PreorderHexes ==
    { hash_name_hex(carol, S, script_hex_to_address(S)),
      hash_name_hex(bob, T, script_hex_to_address(T)) }

ShortPreorderHexes ==
    { digest(<< "h" >>, LENGTHS.preorder_name_hash - 1),
      Tail(digest(<< "h" >>, LENGTHS.preorder_name_hash)) }

\* config.NAMESPACE_LIFE_INFINITE (0xffffffff), as the eight hexadecimal
\* digits it has on the wire
NAMESPACE_LIFE_INFINITE_HEX == [ k \in 1..(2 * LENGTHS.blockchain_id_namespace_life) |-> 15 ]

\* the digits of the lifetime in a packaged NAMESPACE_REVEAL script: they
\* follow the two magic bytes and the opcode
life_hex_of(packaged_script) ==
    SubSeq(packaged_script, 7, 6 + 2 * LENGTHS.blockchain_id_namespace_life)

\* the largest lifetime a namespace is revealed with
MaxLifetime == 2147483646

Lifetimes == { 0, BLOCKS_PER_YEAR, MaxLifetime }

\* price parameters: the least, the greatest, one in between
Prices == { << 0, 255 >>, << 255, 0 >>, << 4, 250 >> }

Buckets == { [ i \in 1..16 |-> i - 1 ], [ i \in 1..16 |-> 16 - i ] }

Discounts == { << 1, 15 >>, << 15, 1 >>, << 10, 9 >> }

Versions == { BLOCKSTACK_VERSION, 65535 }

RevealArgs(namespace_id, version, lifetime, coeff, base, bucket_exponents, nonalpha_discount, no_vowel_discount) ==
    [ namespace_id |-> namespace_id, version |-> version, lifetime |-> lifetime,
      coeff |-> coeff, base |-> base, bucket_exponents |-> bucket_exponents,
      nonalpha_discount |-> nonalpha_discount,
      no_vowel_discount |-> no_vowel_discount ]

GoodReveals ==
    { RevealArgs(id, version, lifetime, 4, 4, [ i \in 1..16 |-> 1 ], 10, 10) :
        id \in CodecNamespaceIds, version \in Versions, lifetime \in Lifetimes }
    \cup { RevealArgs(apps, BLOCKSTACK_VERSION, BLOCKS_PER_YEAR, price[1], price[2],
                      buckets, discount[1], discount[2]) :
             price \in Prices, buckets \in Buckets, discount \in Discounts }

\* reveals with one argument out of its range
BadReveals ==
    LET good == RevealArgs(apps, BLOCKSTACK_VERSION, BLOCKS_PER_YEAR, 4, 4,
                           [ i \in 1..16 |-> 1 ], 10, 10)
    IN  { [ good EXCEPT !.namespace_id = id ] : id \in BadNamespaceIds }
        \cup { [ good EXCEPT !.version = 65536 ], [ good EXCEPT !.version = 0 - 1 ],
               [ good EXCEPT !.lifetime = 0 - 1 ],
               [ good EXCEPT !.coeff = 256 ], [ good EXCEPT !.base = 0 - 1 ],
               [ good EXCEPT !.bucket_exponents = [ i \in 1..15 |-> 1 ] ],
               [ good EXCEPT !.bucket_exponents = [ i \in 1..16 |-> 16 ] ],
               [ good EXCEPT !.nonalpha_discount = 0 ],
               [ good EXCEPT !.no_vowel_discount = 16 ] }

\* the sender and the recipient of every script of this chain
CodecSender == S
CodecRecipient == T

\* one script is built, sent and parsed
Codec(opcode, args, script, parsed) ==
    /\ phase = "parse"
    /\ vtx < MaxTxs
    /\ vtx' = vtx + 1
    /\ txs' = Append(txs, [ opcode |-> opcode, args |-> args, script |-> script ])
    /\ ops' = IF parsed = {} THEN ops
              ELSE Append(ops, Put(The(parsed), "vtxindex", vtx'))
    /\ UNCHANGED << host_vars, block, phase, queue, checked_ops, ci, stream,
                    db_vars, consensus_hashes, saved >>

Received(script) ==
    UNION { parse_script(s, CodecSender, CodecRecipient,
                         script_hex_to_address(CodecRecipient)) : s \in script }

BuildPreorder ==
    \E name \in CodecNames, script_pubkey \in { S, T },
       consensus_hash \in ConsensusHexes \cup { ShortConsensusHex } :
        LET register_addr == script_hex_to_address(script_pubkey)
            script == build_preorder(name, script_pubkey, register_addr,
                                     consensus_hash, {})
        IN  Codec(NAME_PREORDER,
                  [ name |-> name, script_pubkey |-> script_pubkey,
                    register_addr |-> register_addr,
                    consensus_hash |-> consensus_hash, name_hash |-> {} ],
                  script, Received(script))

RestorePreorder ==
    \E preorder_hash \in PreorderHexes \cup ShortPreorderHexes,
       consensus_hash \in ConsensusHexes \cup { ShortConsensusHex } :
        LET name_rec == [ preorder_hash |-> preorder_hash,
                          consensus_hash |-> consensus_hash ]
        IN  Codec(NAME_PREORDER,
                  [ consensus_hash |-> consensus_hash,
                    name_hash |-> { preorder_hash } ],
                  build_preorder(None, None, None, consensus_hash, { preorder_hash }),
                  preorder_restore_delta(name_rec))

BuildTransfer ==
    \E name \in CodecNames, keepdata \in BOOLEAN,
       consensus_hash \in ConsensusHexes \cup { ShortConsensusHex } :
        LET script == build_transfer(name, keepdata, consensus_hash)
        IN  Codec(NAME_TRANSFER,
                  [ name |-> name, keepdata |-> keepdata,
                    consensus_hash |-> consensus_hash ],
                  script, Received(script))

BuildNamespaceReveal ==
    \E a \in GoodReveals \cup BadReveals :
        LET script == build_namespace_reveal(a.namespace_id, a.version, a.lifetime,
                          a.coeff, a.base, a.bucket_exponents,
                          a.nonalpha_discount, a.no_vowel_discount)
        IN  Codec(NAMESPACE_REVEAL, a, script, Received(script))

BuildNamespaceReady ==
    \E namespace_id \in CodecNamespaceIds \cup BadNamespaceIds :
        LET script == build_namespace_ready(namespace_id)
        IN  Codec(NAMESPACE_READY, [ namespace_id |-> namespace_id ],
                  script, Received(script))

InitCodec == testset \in BOOLEAN /\ InitHost /\ InitDB

NextCodec ==
    \/ BuildPreorder
    \/ RestorePreorder
    \/ BuildTransfer
    \/ BuildNamespaceReveal
    \/ BuildNamespaceReady

SpecCodec == InitCodec /\ [][NextCodec]_vars

\* ---------------------------------------------------------------------
\* Python floats (IEEE-754 binary64), as far as price_name uses them.
\* A positive float is [m |-> 53 bits, most significant first and set,
\* e |-> exponent]: its value is m * 2^e.  Every operation rounds to the
\* nearest float, ties to the one with an even last bit.
\* ---------------------------------------------------------------------
\* sys.float_info
FLOAT == [ mant_dig |-> 53 ]

MANTISSA == FLOAT.mant_dig

\* the number of binary digits of an integer below 2^31
bit_length(v) == Cardinality({ n \in 0..30 : 2 ^ n <= v })

\* the binary digits of an integer, most significant first, in `width` places
bits_in(v, width) == [ i \in 1..width |-> (v \div (2 ^ (width - i))) % 2 ]

bits_of(v) == bits_in(v, bit_length(v))

RECURSIVE int_of(_)
\* the integer a sequence of at most 31 binary digits spells
int_of(bits) ==
    IF Len(bits) = 0 THEN 0
    ELSE IF Len(bits) = 1 THEN bits[1]
    ELSE LET half == Len(bits) \div 2
         IN  int_of(SubSeq(bits, 1, half)) * (2 ^ (Len(bits) - half))
             + int_of(SubSeq(bits, half + 1, Len(bits)))

\* bits + 1, one digit longer when every digit was set
increment(bits) ==
    IF \A i \in 1..Len(bits) : bits[i] = 1
    THEN << 1 >> \o [ i \in 1..Len(bits) |-> 0 ]
    ELSE LET last == CHOOSE k \in 1..Len(bits) :
                        bits[k] = 0 /\ \A i \in (k + 1)..Len(bits) : bits[i] = 1
         IN  [ i \in 1..Len(bits) |->
                 IF i < last THEN bits[i] ELSE IF i = last THEN 1 ELSE 0 ]

\* round the digits (first digit set, weight 2^e for the last one, `more`
\* when non-zero digits follow that were not written out) to a float
float_round(bits, e, more) ==
    IF Len(bits) <= MANTISSA
    THEN [ m |-> bits \o [ i \in 1..(MANTISSA - Len(bits)) |-> 0 ],
           e |-> e - (MANTISSA - Len(bits)) ]
    ELSE LET kept == SubSeq(bits, 1, MANTISSA)
             guard == bits[MANTISSA + 1]
             sticky == more \/ \E i \in (MANTISSA + 2)..Len(bits) : bits[i] = 1
             up == guard = 1 /\ (sticky \/ kept[MANTISSA] = 1)
             raised == IF up THEN increment(kept) ELSE kept
             shift == Len(bits) - MANTISSA
         IN  IF Len(raised) > MANTISSA
             THEN [ m |-> SubSeq(raised, 1, MANTISSA), e |-> e + shift + 1 ]
             ELSE [ m |-> raised, e |-> e + shift ]

\* (r * 2^j) % d for r < d < 2^11 and j <= 60, twenty doublings at a time
shifted_rem(r, d, j) ==
    LET first == (r * (2 ^ Min(j, 20))) % d
        second == (first * (2 ^ Min(IF j > 20 THEN j - 20 ELSE 0, 20))) % d
    IN  (second * (2 ^ (IF j > 40 THEN j - 40 ELSE 0))) % d

\* the j-th binary digit of r / d after the point
quotient_digit(r, d, j) == (2 * shifted_rem(r, d, j - 1)) \div d

\* float(x) / float(d) for integers 0 < x < 2^31 and 0 < d < 2^11: the
\* quotient written out to one digit more than a float keeps
float_div(x, d) ==
    LET whole == bits_of(x \div d)
        r == x % d
        \* the places after the point that come before the first set digit
        zeros == IF Len(whole) > 0 \/ r = 0 THEN 0
                 ELSE (CHOOSE j \in 1..12 :
                          /\ quotient_digit(r, d, j) = 1
                          /\ \A i \in 1..(j - 1) : quotient_digit(r, d, i) = 0) - 1
        places == zeros + (MANTISSA + 1 - Len(whole))
        digits == whole \o [ j \in 1..(places - zeros) |->
                               quotient_digit(r, d, zeros + j) ]
    IN  float_round(digits, 0 - places, shifted_rem(r, d, places) # 0)

\* f * k for a float f and an integer 0 < k < 2^7: the 53 digits are
\* multiplied in three parts that fit a machine word
float_mul(f, k) ==
    LET low == int_of(SubSeq(f.m, 37, 53)) * k
        mid == int_of(SubSeq(f.m, 19, 36)) * k + (low \div (2 ^ 17))
        high == int_of(SubSeq(f.m, 1, 18)) * k + (mid \div (2 ^ 18))
    IN  float_round(bits_of(high) \o bits_in(mid % (2 ^ 18), 18)
                       \o bits_in(low % (2 ^ 17), 17),
                    f.e, FALSE)

\* int(f): the integer part of a float below 2^31
float_int(f) ==
    IF f.e >= 0 THEN int_of(f.m \o [ i \in 1..f.e |-> 0 ])
    ELSE IF MANTISSA + f.e <= 0 THEN 0
    ELSE int_of(SubSeq(f.m, 1, MANTISSA + f.e))

\* config.NAME_COST_UNIT, in satoshis
NAME_COST_UNIT == 100

\* str.lower
lower(s) ==
    [ i \in 1..Len(s) |->
        IF ord(s[i]) \in 65..90 THEN chr(ord(s[i]) + 32) ELSE s[i] ]

\* the larger of two numbers
max(a, b) == IF a > b THEN a ELSE b

\* scripts.price_name
price_name(name, namespace) ==
    LET base == namespace.base
        coeff == namespace.coeff
        buckets == namespace.buckets
        \* buckets[len(name)-1] counts from the end for the empty name
        bucket_exponent ==
            IF Len(name) < Len(buckets)
            THEN (IF Len(name) = 0 THEN buckets[Len(buckets)] ELSE buckets[Len(name)])
            ELSE buckets[Len(buckets)]
        vowels == { i \in 1..Len(name) :
                      lower(name)[i] \in { "a", "e", "i", "o", "u", "y" } }
        nonalpha == { i \in 1..Len(name) :
                        lower(name)[i] \in { "0", "1", "2", "3", "4", "5", "6",
                                             "7", "8", "9", "-", "_" } }
        no_vowel_discount ==
            IF vowels = {} THEN max(1, namespace.no_vowel_discount) ELSE 1
        discount ==
            IF nonalpha # {} THEN max(no_vowel_discount, namespace.nonalpha_discount)
            ELSE no_vowel_discount
        price == float_mul(float_div(coeff * (base ^ bucket_exponent), discount),
                           NAME_COST_UNIT)
    IN  IF float_int(price) < NAME_COST_UNIT THEN NAME_COST_UNIT
        ELSE float_int(price)

----------------------------------------------------------------------------
(* The library called from outside the pipeline: each step is one call of  *)
(* a validator or of a price function, recorded with what it returned.     *)

MaxCalls == 1

\* texts of every length up to two past the limit, without and with a
\* namespace, and some that are malformed
Plain(n) == [ i \in 1..n |-> "a" ]
Dotted(n) == [ i \in 1..(n - 2) |-> "a" ] \o << ".", "b" >>

NameTexts ==
    { Plain(n) : n \in 0..(LENGTHS.blockchain_id_name + 2) }
    \cup { Dotted(n) : n \in 3..(LENGTHS.blockchain_id_name + 2) }
    \cup { << "a", "+", ".", "b" >>, << "a", ".", "b", ".", "c" >>,
           << ".", "b" >>, << "a", "." >>, << "R", ".", "b" >> }

PricedNames ==
    { << >>, << "a" >>, << "b" >>, << "b", "2" >>, << "a", "-", "1" >>,
      << "x", "_" >>, << "b", "c", "d" >>, << "T", "R", "S" >>,
      [ i \in 1..15 |-> "a" ], [ i \in 1..16 |-> "a" ], [ i \in 1..17 |-> "b" ],
      [ i \in 1..20 |-> "a" ] }

PriceNamespaces ==
    { [ coeff |-> c, base |-> b, buckets |-> k,
        nonalpha_discount |-> n, no_vowel_discount |-> v ] :
        c \in { 1, 4, 23 }, b \in { 1, 4 },
        k \in { << 9, 8, 7, 6, 5, 4, 3, 2, 2, 2, 2, 2, 2, 2, 1, 0 >>,
                [ i \in 1..16 |-> 1 ] },
        n \in { 1, 5, 10 }, v \in { 1, 10, 15 } }

NamespaceIdTexts == { Plain(n) : n \in 1..(LENGTHS.blockchain_id_namespace_id + 1) }

\* the record of a call: the function, its argument and what it returned
Returned(fn, args, ret) ==
    Append(calls, [ fn |-> fn, args |-> args, ret |-> ret, testset |-> testset ])

IsNameValid ==
    /\ Len(calls) < MaxCalls
    /\ \E fqn \in NameTexts :
           calls' = Returned("is_name_valid", fqn, is_name_valid(fqn))
    /\ UNCHANGED << testset, rebuild, stop, server_vars, engine_vars >>

TransferSanityCheck ==
    /\ Len(calls) < MaxCalls
    /\ \E name \in NameTexts :
           calls' = Returned("transfer_sanity_check", name,
                             transfer_sanity_check({ name }, The(ConsensusHexes)))
    /\ UNCHANGED << testset, rebuild, stop, server_vars, engine_vars >>

PreorderNameCheck ==
    /\ Len(calls) < MaxCalls
    /\ \E name \in NameTexts :
           calls' = Returned("preorder_name_check", name, preorder_name_check(name))
    /\ UNCHANGED << testset, rebuild, stop, server_vars, engine_vars >>

PriceName ==
    /\ Len(calls) < MaxCalls
    /\ \E name \in PricedNames, namespace \in PriceNamespaces :
           calls' = Returned("price_name", << name, namespace >>,
                             price_name(name, namespace))
    /\ UNCHANGED << testset, rebuild, stop, server_vars, engine_vars >>

PriceNamespace ==
    /\ Len(calls) < MaxCalls
    /\ \E namespace_id \in NamespaceIdTexts :
           calls' = Returned("price_namespace", namespace_id,
                             price_namespace(namespace_id))
    /\ UNCHANGED << testset, rebuild, stop, server_vars, engine_vars >>

InitPrim == testset \in BOOLEAN /\ InitHost /\ InitDB

NextPrim ==
    \/ IsNameValid
    \/ TransferSanityCheck
    \/ PreorderNameCheck
    \/ PriceName
    \/ PriceNamespace

SpecPrim == InitPrim /\ [][NextPrim]_vars

----------------------------------------------------------------------------
(* The replay of a block for SNV (blockstackd.block_to_virtualchain_ops):  *)
(* the records the database holds for a block are put in transaction order *)
(* and each is turned back into the operation that produced it.            *)

MaxRecs == 3       \* records altered at one block

\* a record of the database as get_all_records_at returns it: of a name
\* after a transfer, or of a namespace after its NAMESPACE_READY; `history`
\* stands for the fields that are not consensus fields
AlteredRec(subject, vtxindex) ==
    IF subject \in { alice, bob }
    THEN [ name |-> subject, op |-> NAME_TRANSFER \o TRANSFER_KEEP_DATA,
           vtxindex |-> vtxindex, txid |-> << "txid", vtxindex >>, sender |-> T,
           sender_pubkey |-> None, address |-> script_hex_to_address(T),
           value_hash |-> None, history |-> << >> ]
    ELSE [ namespace_id |-> subject, op |-> NAMESPACE_READY, vtxindex |-> vtxindex,
           txid |-> << "txid", vtxindex >>, sender |-> T,
           sender_pubkey |-> pubkey_of(S), address |-> script_hex_to_address(S),
           history |-> << >> ]

\* the records a block may have altered, with and without the mark of an
\* expired record
AlteredRecs ==
    UNION { { AlteredRec(subject, i), Put(AlteredRec(subject, i), "expired", TRUE) } :
              subject \in { alice, bob, shop }, i \in 1..MaxRecs }

\* what get_all_records_at may return: records of different transactions,
\* in any order
RecordsAt ==
    UNION { { l \in [ 1..n -> AlteredRecs ] :
                \A i, j \in 1..n : i # j => l[i].vtxindex # l[j].vtxindex } :
            n \in 0..MaxRecs }

\* the name of the opcode of a record; the op of a transfer carries the
\* disposition after the opcode
op_get_opcode_name(op) ==
    IF transfer_disposition(op) # {} THEN OPCODE_NAMES[NAME_TRANSFER]
    ELSE OPCODE_NAMES[op]

\* the fields that are kept with the consensus fields of a record:
\* rec_to_virtualchain_op reads them after the others are removed
NAMEREC_INDIRECT_CONSENSUS_FIELDS == { "expired", "txid", "transfer_send_block_id" }

\* sorted( prior_recs, key=lambda op: op['vtxindex'] ): a stable sort
RECURSIVE sorted_by_vtxindex(_)
sorted_by_vtxindex(recs) ==
    IF recs = << >> THEN << >>
    ELSE LET rest == sorted_by_vtxindex(SubSeq(recs, 1, Len(recs) - 1))
             last == recs[Len(recs)]
             k == Cardinality({ i \in 1..Len(rest) : rest[i].vtxindex <= last.vtxindex })
         IN  SubSeq(rest, 1, k) \o << last >> \o SubSeq(rest, k + 1, Len(rest))

\* max( d.values() )
max_value(d) == CHOOSE v \in { d[k] : k \in DOMAIN d } : \A k \in DOMAIN d : d[k] <= v

\* history_index after the first n records (blockstackd.py 2212-2224):
\* name -> position in prior_recs -> how many records of the name precede
RECURSIVE history_index(_, _)
history_index(prior_recs, n) ==
    IF n = 0 THEN << >>
    ELSE LET before == history_index(prior_recs, n - 1)
             rec == prior_recs[n]
         IN  IF "name" \notin DOMAIN rec THEN before
             ELSE IF rec.name \notin DOMAIN before
             THEN Put(before, rec.name, n :> 0)
             ELSE Put(before, rec.name,
                      Put(before[rec.name], n, max_value(before[rec.name]) + 1))

\* the fields of the record as they were at (block_number, history_index)
op_make_restore_diff(opcode_name, name_rec, block_number, history_index_of_rec) ==
    [ restored_at |-> << block_number, history_index_of_rec >> ]

\* blockstackd.rec_to_virtualchain_op: {} for an expired record
rec_to_virtualchain_op(name_rec, block_number, history_index_of_rec) ==
    LET opcode_name == op_get_opcode_name(name_rec.op)
        ret_op == op_make_restore_diff(opcode_name, name_rec, block_number,
                                       history_index_of_rec)
        fields == [ virtualchain_opcode |-> name_rec.op,
                    virtualchain_txid |-> name_rec.txid,
                    virtualchain_txindex |-> name_rec.vtxindex,
                    opcode |-> opcode_name ]
    IN  IF "expired" \in DOMAIN name_rec /\ name_rec.expired THEN {}
        ELSE { Update(name_rec, Update(ret_op, fields)) }

\* the second loop of block_to_virtualchain_ops over the first n records
RECURSIVE recover_ops(_, _, _, _)
recover_ops(block_id, prior_recs, hist, n) ==
    IF n = 0 THEN << >>
    ELSE LET consensus_fields == SERIALIZE_FIELDS[op_get_opcode_name(prior_recs[n].op)]
             rec == Restrict(prior_recs[n],
                             consensus_fields \cup NAMEREC_INDIRECT_CONSENSUS_FIELDS)
             h == IF "name" \in DOMAIN rec /\ rec.name \in DOMAIN hist
                  THEN hist[rec.name][n] ELSE 0
             virtualchain_op == rec_to_virtualchain_op(rec, block_id, h)
             before == recover_ops(block_id, prior_recs, hist, n - 1)
         IN  IF virtualchain_op = {} THEN before
             ELSE Append(before, The(virtualchain_op))

\* blockstackd.block_to_virtualchain_ops without the sort of the records
block_to_virtualchain_ops_unsorted(block_id, records) ==
    recover_ops(block_id, records, history_index(records, Len(records)), Len(records))

\* blockstackd.block_to_virtualchain_ops, given what get_all_records_at
\* returned
block_to_virtualchain_ops(block_id, records) ==
    LET prior_recs == sorted_by_vtxindex(records)
    IN  recover_ops(block_id, prior_recs,
                    history_index(prior_recs, Len(prior_recs)), Len(prior_recs))

\* a block is replayed
BlockToVirtualchainOps ==
    /\ Len(calls) < MaxCalls
    /\ \E records \in RecordsAt :
           calls' = Returned("block_to_virtualchain_ops", records,
                             block_to_virtualchain_ops(block, records))
    /\ UNCHANGED << testset, rebuild, stop, server_vars, engine_vars >>

InitReplay == testset = FALSE /\ InitHost /\ InitDB

NextReplay == BlockToVirtualchainOps

SpecReplay == InitReplay /\ [][NextReplay]_vars

----------------------------------------------------------------------------
(* The daemon (blockstackd): `start` and `stop` from the command line, the *)
(* supervisor's PID file, the indexing flag, the indexing loop of          *)
(* run_server, and the queries the API server answers from the database    *)
(* on disk.                                                                *)

\* the process is between its first and its last instruction
Alive(p) ==
    proc[p].pc \in { "starting", "clear", "range", "flag", "load", "sync",
                     "unflag", "sleep" }

\* the process is on its way out: sys.exit(1) after a failed pass, or any
\* other end
Exiting(p) == proc[p].pc \in { "fatal", "atexit" }

\* the process is in the loop of run_server
InLoop(p) ==
    proc[p].pc \in { "range", "flag", "load", "sync", "unflag", "sleep" }

\* the process has started its API server
ApiUp(p) == proc[p].pc = "clear" \/ InLoop(p)

\* blockstackd.is_indexing
is_indexing == indexing

\* a process that has ended: what is left of it is its exit status
Ended(p, status) ==
    [ Shell EXCEPT !.pc = "exited", !.status = status, !.prev = p.prev, !.run = p.run ]

\* blockstackd start (run_blockstackd): refuse when the PID file exists
Start(p) ==
    /\ proc[p].pc \in { "shell", "exited" }
    /\ proc[p].run < MaxRuns
    /\ proc' = [ proc EXCEPT ![p] =
                   [ Shell EXCEPT !.prev = proc[p].status,
                                  !.run = proc[p].run + 1,
                                  !.pc = IF pidfile # {} THEN "exited" ELSE "starting",
                                  !.status = IF pidfile # {} THEN { 1 } ELSE {} ] ]
    /\ UNCHANGED << testset, rebuild, stop, calls, pidfile, indexing, outage, tip, engine_vars >>

\* run_server: put_pidfile, register blockstack_exit, start the API server
PutPidfile(p) ==
    /\ proc[p].pc = "starting"
    /\ pidfile' = { p }
    /\ proc' = [ proc EXCEPT ![p].pc = "clear" ]
    /\ UNCHANGED << testset, rebuild, stop, calls, indexing, outage, tip, engine_vars >>

\* run_server: set_indexing(False), "clear any stale indexing state"
ClearStale(p) ==
    /\ proc[p].pc = "clear"
    /\ indexing' = FALSE
    /\ proc' = [ proc EXCEPT ![p].pc = "range" ]
    /\ UNCHANGED << testset, rebuild, stop, calls, pidfile, outage, tip, engine_vars >>

\* the part of the delay random.random() adds: nothing, half, all but a
\* millisecond
Jitter(delay) == { 0, delay \div 2, delay - 1 }

\* a call that gives up on the first failure: get_index_range returns
\* (None, None) and index_blockchain returns without a pass
GetIndexRangeFail_gives_up(p) ==
    /\ proc[p].pc = "range"
    /\ outage > 0
    /\ outage' = outage - 1
    /\ proc' = [ proc EXCEPT ![p].pc = "sleep",
                             ![p].waits = Append(proc[p].waits, proc[p].delay) ]
    /\ UNCHANGED << testset, rebuild, stop, calls, pidfile, indexing, tip, engine_vars >>

\* a delay that is lengthened without limit
GetIndexRangeFail_uncapped(p) ==
    /\ proc[p].pc = "range"
    /\ outage > 0
    /\ outage' = outage - 1
    /\ \E jitter \in Jitter(proc[p].delay) :
         proc' = [ proc EXCEPT
             ![p].waits = Append(proc[p].waits, proc[p].delay),
             ![p].delay = (proc[p].delay * 2) + jitter ]
    /\ UNCHANGED << testset, rebuild, stop, calls, pidfile, indexing, tip, engine_vars >>

\* get_index_range: bitcoind is out of reach; sleep and lengthen the delay
GetIndexRangeFail(p) ==
    /\ proc[p].pc = "range"
    /\ outage > 0
    /\ outage' = outage - 1
    /\ \E jitter \in Jitter(proc[p].delay) :
         LET delay == (proc[p].delay * 2) + jitter
         IN  proc' = [ proc EXCEPT
                 ![p].waits = Append(proc[p].waits, proc[p].delay),
                 ![p].delay = IF delay > MAX_DELAY THEN MAX_DELAY ELSE delay ]
    /\ UNCHANGED << testset, rebuild, stop, calls, pidfile, indexing, tip, engine_vars >>

\* a range that ends at the last block bitcoind knows about
GetIndexRangeOK_unconfirmed(p) ==
    /\ proc[p].pc = "range"
    /\ outage = 0
    /\ proc' = [ proc EXCEPT ![p].pc = "flag",
                             ![p].delay = INITIAL_DELAY,
                             ![p].range = { << FirstBlock, tip >> } ]
    /\ UNCHANGED << testset, rebuild, stop, calls, pidfile, indexing, outage, tip, engine_vars >>

\* get_index_range returns first_block, last_block - NUM_CONFIRMATIONS, and
\* index_blockchain goes on with them; `waits` keeps the waits of the call
\* until the next step
GetIndexRangeOK(p) ==
    /\ proc[p].pc = "range"
    /\ outage = 0
    /\ proc' = [ proc EXCEPT ![p].pc = "flag",
                             ![p].delay = INITIAL_DELAY,
                             ![p].range = { << FirstBlock, tip - NUM_CONFIRMATIONS >> } ]
    /\ UNCHANGED << testset, rebuild, stop, calls, pidfile, indexing, outage, tip, engine_vars >>

\* index_blockchain: set_indexing(True); the lock file is created unless it
\* is there already
SetIndexing(p) ==
    /\ proc[p].pc = "flag"
    /\ indexing' = TRUE
    /\ proc' = [ proc EXCEPT ![p].pc = "load", ![p].waits = << >> ]
    /\ UNCHANGED << testset, rebuild, stop, calls, pidfile, outage, tip, engine_vars >>

\* sync_blockchain begins: the state engine is loaded from what was saved
\* and goes on after the last block on record
SyncStart(p) ==
    /\ proc[p].pc = "load"
    /\ proc' = [ proc EXCEPT ![p].pc = "sync", ![p].began = { lastblock } ]
    /\ name_records' = saved[1]
    /\ preorders' = saved[2]
    /\ namespace_preorders' = saved[3]
    /\ namespaces' = saved[4]
    /\ consensus_hashes' =
          Restrict(consensus_hashes, { b \in DOMAIN consensus_hashes : b < block })
    /\ phase' = "parse"
    /\ vtx' = 0
    /\ txs' = << >>
    /\ ops' = << >>
    /\ queue' = << >>
    /\ checked_ops' = << >>
    /\ ci' = 0
    /\ stream' = << >>
    /\ UNCHANGED << testset, rebuild, stop, calls, pidfile, indexing, outage, tip, block, saved >>

\* current_block, the last block index_blockchain hands to sync_blockchain
current_block(p) == The(proc[p].range)[2]

\* a process is in sync_blockchain with blocks left to process
Syncing == \E p \in PIDS : proc[p].pc = "sync" /\ block <= current_block(p)

\* the transactions the blocks may carry while the daemon runs
ServerTxs(b) ==
    { PreorderTx(NAME_PREORDER, hash_name(carol, S, script_hex_to_address(S)),
                 snapshot(b - 1), R, << Pay(BURN_SCRIPT, 1) >>),
      TransferTx(TRANSFER_KEEP_DATA, alice, snapshot(b - 1), S, R) }

SyncParseTx == Syncing /\ \E tx \in ServerTxs(block) : ParseTx(tx)
SyncProcessOps == Syncing /\ ProcessOps
SyncCheckOp == Syncing /\ CheckOp
SyncCommitOp == Syncing /\ CommitOp
SyncFinalCommit == Syncing /\ FinalCommit
SyncSnapshot == Syncing /\ Snapshot
SyncSave == Syncing /\ Save

\* a server that goes on to the next pass after a failed one
SyncFail_next_pass(p) ==
    /\ proc[p].pc = "sync"
    /\ proc' = [ proc EXCEPT ![p].pc = "sleep" ]
    /\ UNCHANGED << testset, rebuild, stop, calls, pidfile, indexing, outage, tip, engine_vars >>

\* run_server: sync_blockchain raises; "FATAL: caught exception while
\* indexing", sys.exit(1)
SyncFail(p) ==
    /\ proc[p].pc = "sync"
    /\ proc' = [ proc EXCEPT ![p].pc = "fatal", ![p].status = { 1 } ]
    /\ UNCHANGED << testset, rebuild, stop, calls, pidfile, indexing, outage, tip, engine_vars >>

\* sync_blockchain returns: every block up to current_block is processed
SyncDone(p) ==
    /\ proc[p].pc = "sync"
    /\ block > current_block(p)
    /\ phase = "parse" /\ vtx = 0
    /\ proc' = [ proc EXCEPT ![p].pc = "unflag" ]
    /\ UNCHANGED << testset, rebuild, stop, calls, pidfile, indexing, outage, tip, engine_vars >>

\* index_blockchain: set_indexing(False)
ClearIndexing(p) ==
    /\ proc[p].pc = "unflag"
    /\ indexing' = FALSE
    /\ proc' = [ proc EXCEPT ![p].pc = "sleep", ![p].range = {}, ![p].began = {} ]
    /\ UNCHANGED << testset, rebuild, stop, calls, pidfile, outage, tip, engine_vars >>

\* run_server: REINDEX_FREQUENCY has passed, the next pass begins
Wake(p) ==
    /\ proc[p].pc = "sleep"
    /\ proc' = [ proc EXCEPT ![p].pc = "range" ]
    /\ UNCHANGED << testset, rebuild, stop, calls, pidfile, indexing, outage, tip, engine_vars >>

\* SIGINT reaches the process: the sleep of run_server catches it and the
\* server returns 0; anywhere else KeyboardInterrupt ends the process
Interrupt(p) ==
    /\ Alive(p)
    /\ proc[p].sigint
    /\ proc' = [ proc EXCEPT ![p].pc = "atexit",
                             ![p].sigint = FALSE,
                             ![p].status = IF proc[p].pc = "sleep" THEN { 0 }
                                           ELSE { 1 } ]
    /\ UNCHANGED << testset, rebuild, stop, calls, pidfile, indexing, outage, tip, engine_vars >>

\* blockstack_exit, registered with atexit once the PID file is written:
\* unlink the PID file and SIGTERM the process it names if that is another
BlockstackExit(p) ==
    /\ Exiting(p)
    /\ pidfile' = {}
    /\ proc' = [ q \in PIDS |->
                   IF q = p THEN Ended(proc[q], proc[q].status)
                   ELSE IF q \in pidfile /\ (Alive(q) \/ Exiting(q))
                   THEN Ended(proc[q], { SIGTERMED })
                   ELSE proc[q] ]
    /\ UNCHANGED << testset, rebuild, stop, calls, indexing, outage, tip, engine_vars >>

\* the process exists: os.kill does not fail with ESRCH
Exists(pid) == Alive(pid) \/ Exiting(pid)

\* blockstackd stop (stop_server) up to its sleep: SIGINT to the process of
\* the PID file; unlink the file and return when the process is gone; with
\* --kill go on after three seconds, else unlink the file with --clean
Stop(clean, kill) ==
    /\ stop.pc = "idle"
    /\ IF pidfile = {}
       THEN UNCHANGED << pidfile, proc, stop >>
       ELSE LET pid == The(pidfile)
            IN  IF ~Exists(pid)
                THEN pidfile' = {} /\ UNCHANGED << proc, stop >>
                ELSE /\ proc' = [ proc EXCEPT ![pid].sigint = TRUE ]
                     /\ IF kill
                        THEN /\ stop' = [ pc |-> "sleep", pid |-> { pid },
                                          clean |-> clean ]
                             /\ UNCHANGED pidfile
                        ELSE /\ pidfile' = IF clean THEN {} ELSE pidfile
                             /\ UNCHANGED stop
    /\ UNCHANGED << testset, rebuild, calls, indexing, outage, tip, engine_vars >>

\* a stop that sends SIGKILL to no process
StopKill_spares ==
    /\ stop.pc = "sleep"
    /\ stop' = NoStop
    /\ pidfile' = IF stop.clean THEN {} ELSE pidfile
    /\ UNCHANGED << testset, rebuild, calls, indexing, proc, outage, tip, engine_vars >>

\* stop_server after time.sleep(3.0): SIGKILL to the same process, which
\* ends it unless it has ended or is in its exit handler by then, and with
\* --clean unlink the PID file
StopKill ==
    /\ stop.pc = "sleep"
    /\ stop' = NoStop
    /\ LET pid == The(stop.pid)
       IN  proc' = [ proc EXCEPT ![pid] =
                       IF Alive(pid)
                       THEN Ended(@, { SIGKILLED })
                       ELSE @ ]
    /\ pidfile' = IF stop.clean THEN {} ELSE pidfile
    /\ UNCHANGED << testset, rebuild, calls, indexing, outage, tip, engine_vars >>

\* bitcoind learns of a block
NewBlock ==
    /\ tip < Confirming(StartBlock + MaxBlocks - 1)
    /\ tip' = tip + 1
    /\ UNCHANGED << testset, rebuild, stop, calls, pidfile, indexing, proc, outage, engine_vars >>

\* what a query returns: an error or a result
Error(text) == [ error |-> { text }, result |-> {} ]
Result(value) == [ error |-> {}, result |-> { value } ]

\* the database an API server loads: the tables saved last and the
\* consensus hashes of the blocks on record
DiskNames == saved[1]
DiskNamespaces == saved[4]
DiskConsensus ==
    Restrict(consensus_hashes, { b \in DOMAIN consensus_hashes : b < block })

\* BlockstackdRPC.jsonrpc_get_name_blockchain_record
jsonrpc_get_name_blockchain_record(name) ==
    IF name \notin DOMAIN DiskNames
    THEN (IF is_indexing THEN Error(INDEXING_ERROR) ELSE Error("Not found."))
    ELSE Result(DiskNames[name])

\* BlockstackdRPC.jsonrpc_get_name_blockchain_history: the history of a name
\* is kept here as the record it led to
jsonrpc_get_name_blockchain_history(name) ==
    IF name \notin DOMAIN DiskNames
    THEN (IF is_indexing THEN Error(INDEXING_ERROR) ELSE Error("Not found."))
    ELSE Result(<< DiskNames[name] >>)

\* BlockstackdRPC.jsonrpc_get_namespace_blockchain_record
jsonrpc_get_namespace_blockchain_record(namespace_id) ==
    IF ~(namespace_id \in DOMAIN DiskNamespaces
            /\ DiskNamespaces[namespace_id].op = NAMESPACE_READY)
    THEN (IF is_indexing THEN Error(INDEXING_ERROR)
          ELSE Error("No such ready namespace"))
    ELSE Result(DiskNamespaces[namespace_id])

\* BlockstackdRPC.jsonrpc_get_all_names
jsonrpc_get_all_names ==
    IF is_indexing THEN Error(INDEXING_ERROR) ELSE Result(DOMAIN DiskNames)

\* BlockstackdRPC.jsonrpc_get_names_in_namespace
jsonrpc_get_names_in_namespace(namespace_id) ==
    IF is_indexing THEN Error(INDEXING_ERROR)
    ELSE Result({ n \in DOMAIN DiskNames : n[2] = namespace_id })

\* BlockstackdRPC.jsonrpc_get_consensus_at
jsonrpc_get_consensus_at(block_id) ==
    IF block_id \in DOMAIN DiskConsensus THEN Result(DiskConsensus[block_id])
    ELSE Result(None)

QueriedNames == { alice, dave }
QueriedNamespaces == { test, apps }
QueriedBlocks == { StartBlock - 1, StartBlock + MaxBlocks }

\* the record of an answer of the API server, with the flag at that moment
Answered(fn, args, ret) ==
    Append(calls, [ fn |-> fn, args |-> args, ret |-> ret, indexing |-> is_indexing ])

GetNameBlockchainRecord ==
    /\ \E p \in PIDS : ApiUp(p)
    /\ Len(calls) < MaxCalls
    /\ \E name \in QueriedNames :
           calls' = Answered("get_name_blockchain_record", name,
                             jsonrpc_get_name_blockchain_record(name))
    /\ UNCHANGED << testset, rebuild, stop, pidfile, indexing, proc, outage, tip, engine_vars >>

GetNameBlockchainHistory ==
    /\ \E p \in PIDS : ApiUp(p)
    /\ Len(calls) < MaxCalls
    /\ \E name \in QueriedNames :
           calls' = Answered("get_name_blockchain_history", name,
                             jsonrpc_get_name_blockchain_history(name))
    /\ UNCHANGED << testset, rebuild, stop, pidfile, indexing, proc, outage, tip, engine_vars >>

GetNamespaceBlockchainRecord ==
    /\ \E p \in PIDS : ApiUp(p)
    /\ Len(calls) < MaxCalls
    /\ \E namespace_id \in QueriedNamespaces :
           calls' = Answered("get_namespace_blockchain_record", namespace_id,
                             jsonrpc_get_namespace_blockchain_record(namespace_id))
    /\ UNCHANGED << testset, rebuild, stop, pidfile, indexing, proc, outage, tip, engine_vars >>

GetAllNames ==
    /\ \E p \in PIDS : ApiUp(p)
    /\ Len(calls) < MaxCalls
    /\ calls' = Answered("get_all_names", << >>,
                          jsonrpc_get_all_names)
    /\ UNCHANGED << testset, rebuild, stop, pidfile, indexing, proc, outage, tip, engine_vars >>

GetNamesInNamespace ==
    /\ \E p \in PIDS : ApiUp(p)
    /\ Len(calls) < MaxCalls
    /\ \E namespace_id \in QueriedNamespaces :
           calls' = Answered("get_names_in_namespace", namespace_id,
                             jsonrpc_get_names_in_namespace(namespace_id))
    /\ UNCHANGED << testset, rebuild, stop, pidfile, indexing, proc, outage, tip, engine_vars >>

GetConsensusAt ==
    /\ \E p \in PIDS : ApiUp(p)
    /\ Len(calls) < MaxCalls
    /\ \E block_id \in QueriedBlocks :
           calls' = Answered("get_consensus_at", block_id,
                             jsonrpc_get_consensus_at(block_id))
    /\ UNCHANGED << testset, rebuild, stop, pidfile, indexing, proc, outage, tip, engine_vars >>

\* the steps of the daemon's processes
Daemon ==
    \E p \in PIDS :
        \/ Start(p)
        \/ PutPidfile(p)
        \/ ClearStale(p)
        \/ GetIndexRangeFail(p)
        \/ GetIndexRangeOK(p)
        \/ SetIndexing(p)
        \/ SyncStart(p)
        \/ SyncFail(p)
        \/ SyncDone(p)
        \/ ClearIndexing(p)
        \/ Wake(p)
        \/ Interrupt(p)
        \/ BlockstackExit(p)

StopServer ==
    \/ \E clean \in BOOLEAN, kill \in BOOLEAN : Stop(clean, kill)
    \/ StopKill

\* one server and a chain that grows
InitServer ==
    /\ testset = FALSE
    /\ rebuild = NoRebuild
    /\ stop = NoStop
    /\ InitDB
    /\ calls = << >>
    /\ pidfile = {}
    /\ indexing = FALSE
    /\ proc = [ p \in PIDS |-> IF p = 1 THEN Shell ELSE Absent ]
    /\ outage \in { 0, 1 }
    /\ tip = Confirming(StartBlock)

NextServer ==
    \/ Daemon
    \/ StopServer
    \/ NewBlock
    \/ SyncParseTx
    \/ SyncProcessOps
    \/ SyncCheckOp
    \/ SyncCommitOp
    \/ SyncFinalCommit
    \/ SyncSnapshot
    \/ SyncSave

SpecServer == InitServer /\ [][NextServer]_vars

\* one server indexing one block while clients query its API server
InitQuery ==
    /\ testset = FALSE
    /\ rebuild = NoRebuild
    /\ stop = NoStop
    /\ InitDB
    /\ calls = << >>
    /\ pidfile = {}
    /\ indexing = FALSE
    /\ proc = [ p \in PIDS |-> IF p = 1 THEN Shell ELSE Absent ]
    /\ outage \in { 0, 1 }
    /\ tip = Confirming(StartBlock)

NextQuery ==
    \/ Daemon
    \/ StopServer
    \/ SyncParseTx
    \/ SyncProcessOps
    \/ SyncCheckOp
    \/ SyncCommitOp
    \/ SyncFinalCommit
    \/ SyncSnapshot
    \/ SyncSave
    \/ GetNameBlockchainRecord
    \/ GetNameBlockchainHistory
    \/ GetNamespaceBlockchainRecord
    \/ GetAllNames
    \/ GetNamesInNamespace
    \/ GetConsensusAt

SpecQuery == InitQuery /\ [][NextQuery]_vars

\* two operators start and stop the daemon; the chain has nothing new
InitStart ==
    /\ testset = FALSE
    /\ rebuild = NoRebuild
    /\ stop = NoStop
    /\ InitDB
    /\ calls = << >>
    /\ pidfile = {}
    /\ indexing = FALSE
    /\ proc = [ p \in PIDS |-> Shell ]
    /\ outage \in { 0, 1 }
    /\ tip = Confirming(StartBlock - 1)

NextStart == Daemon \/ StopServer

SpecStart == InitStart /\ [][NextStart]_vars

\* a server in get_index_range while bitcoind is out of reach
InitBackoff ==
    /\ testset = FALSE
    /\ rebuild = NoRebuild
    /\ stop = NoStop
    /\ InitDB
    /\ calls = << >>
    /\ pidfile = { 1 }
    /\ indexing = FALSE
    /\ proc = [ p \in PIDS |->
                  IF p = 1 THEN [ Shell EXCEPT !.pc = "range", !.run = 1 ]
                  ELSE Absent ]
    /\ outage \in 0..MaxOutage
    /\ tip = Confirming(StartBlock)

NextBackoff == \E p \in PIDS : GetIndexRangeFail(p) \/ GetIndexRangeOK(p)

SpecBackoff == InitBackoff /\ [][NextBackoff]_vars

\* the process is scheduled: every sleep of get_index_range ends and the
\* next poll is made
SpecBackoffLive == InitBackoff /\ [][NextBackoff]_vars /\ WF_vars(NextBackoff)

----------------------------------------------------------------------------
(* rebuilddb and verifydb: the operations an untrusted database holds are   *)
(* fed, block by block, to a working database, and the consensus hash of    *)
(* the target block is returned or compared with a trusted one.            *)

\* BlockstackDB.process_block: the consensus hash of a block covers its
\* operations and the state the blocks before it left
process_block(working_db, block_id, virtualchain_ops) ==
    << working_db, block_id, virtualchain_ops >>

RECURSIVE replay(_, _)
\* the consensus hash of block_id when the blocks of a database are
\* processed once each from the first
replay(db, block_id) ==
    IF block_id < FirstBlock THEN GENESIS
    ELSE process_block(replay(db, block_id - 1), block_id, db[block_id])

\* rebuild_database up to the loop: where to start, and on what
RebuildStart ==
    /\ rebuild.pc = "call"
    /\ LET start_block ==
             IF ~rebuild.resume THEN FirstBlock
             ELSE IF rebuild.lastblock # {} THEN The(rebuild.lastblock)
             ELSE rebuild.start_block
       IN  rebuild' = [ rebuild EXCEPT
                          !.pc = "loop",
                          !.start_block = start_block,
                          !.block_id = start_block,
                          !.working_db =
                              IF rebuild.resume /\ rebuild.lastblock # {}
                              THEN replay(rebuild.untrusted_db, The(rebuild.lastblock))
                              ELSE GENESIS ]
    /\ UNCHANGED << testset, calls, stop, server_vars, engine_vars >>

\* a loop that goes on after the block the lastblock file names
RebuildStart_after_lastblock ==
    /\ rebuild.pc = "call"
    /\ LET start_block ==
             IF ~rebuild.resume THEN FirstBlock
             ELSE IF rebuild.lastblock # {} THEN The(rebuild.lastblock) + 1
             ELSE rebuild.start_block
       IN  rebuild' = [ rebuild EXCEPT
                          !.pc = "loop",
                          !.start_block = start_block,
                          !.block_id = start_block,
                          !.working_db =
                              IF rebuild.resume /\ rebuild.lastblock # {}
                              THEN replay(rebuild.untrusted_db, The(rebuild.lastblock))
                              ELSE GENESIS ]
    /\ UNCHANGED << testset, calls, stop, server_vars, engine_vars >>

\* one turn of the loop of rebuild_database
RebuildBlock ==
    /\ rebuild.pc = "loop"
    /\ rebuild.block_id <= rebuild.target_block_id
    /\ LET block_id == rebuild.block_id
           virtualchain_ops == rebuild.untrusted_db[block_id]
           consensus_hash == process_block(rebuild.working_db, block_id,
                                           virtualchain_ops)
       IN  rebuild' = [ rebuild EXCEPT
                          !.applied = Append(rebuild.applied, block_id),
                          !.working_db = consensus_hash,
                          !.consensus_hashes =
                              Put(rebuild.consensus_hashes, block_id, consensus_hash),
                          !.block_id = block_id + 1 ]
    /\ UNCHANGED << testset, calls, stop, server_vars, engine_vars >>

\* rebuild_database returns consensus_hashes[target_block_id]; {} when the
\* target was never processed and the lookup raises
RebuildDone ==
    /\ rebuild.pc = "loop"
    /\ rebuild.block_id > rebuild.target_block_id
    /\ rebuild' = [ rebuild EXCEPT
                      !.pc = IF rebuild.verify THEN "compare" ELSE "done",
                      !.ret =
                          IF rebuild.target_block_id \in DOMAIN rebuild.consensus_hashes
                          THEN { rebuild.consensus_hashes[rebuild.target_block_id] }
                          ELSE {} ]
    /\ UNCHANGED << testset, calls, stop, server_vars, engine_vars >>

\* a verification that trusts every database
VerifyDatabase_trusting ==
    /\ rebuild.pc = "compare"
    /\ rebuild.ret # {}
    /\ rebuild' = [ rebuild EXCEPT !.pc = "done", !.verified = { TRUE } ]
    /\ UNCHANGED << testset, calls, stop, server_vars, engine_vars >>

\* verify_database: did we reach the consensus hash we expected?
VerifyDatabase ==
    /\ rebuild.pc = "compare"
    /\ rebuild.ret # {}
    /\ rebuild' = [ rebuild EXCEPT
                      !.pc = "done",
                      !.verified = { The(rebuild.ret) = rebuild.trusted_consensus_hash } ]
    /\ UNCHANGED << testset, calls, stop, server_vars, engine_vars >>

\* the calls of rebuild_database: fresh or resumed from a directory whose
\* lastblock file may name a block, on the database of the live run or on
\* another
RebuildCalls ==
    { [ NoRebuild EXCEPT !.pc = "call", !.resume = resume, !.lastblock = last,
                         !.resumed_from = last, !.start_block = start_block,
                         !.target_block_id = target, !.untrusted_db = db ] :
        resume \in BOOLEAN,
        last \in { {} } \cup { { b } : b \in FirstBlock..(LastRebuilt - 1) },
        start_block \in { FirstBlock, FirstBlock + 1 },
        target \in FirstBlock..LastRebuilt,
        db \in [ FirstBlock..LastRebuilt -> BlockOps ] }

\* the calls of verify_database: a database, a target block and a trusted
\* hash, which the live run computed for that block or for another
VerifyCalls ==
    { [ NoRebuild EXCEPT !.pc = "call", !.verify = TRUE,
                         !.target_block_id = target, !.untrusted_db = db,
                         !.trusted_consensus_hash = replay(LiveOps, trusted_at) ] :
        target \in FirstBlock..LastRebuilt,
        db \in [ FirstBlock..LastRebuilt -> BlockOps ],
        trusted_at \in FirstBlock..LastRebuilt }

InitRebuild ==
    /\ testset = FALSE
    /\ calls = << >>
    /\ pidfile = {}
    /\ indexing = FALSE
    /\ proc = [ p \in PIDS |-> Absent ]
    /\ outage = 0
    /\ tip = Confirming(LastRebuilt)
    /\ stop = NoStop
    /\ rebuild \in { r \in RebuildCalls : r.resume \/ r.lastblock = {} } \cup VerifyCalls
    /\ InitDB

NextRebuild == RebuildStart \/ RebuildBlock \/ RebuildDone \/ VerifyDatabase

SpecRebuild == InitRebuild /\ [][NextRebuild]_vars

----------------------------------------------------------------------------
(* Properties.                                                             *)

SCRIPTS == { S, R, T }

\* the operations of the block are being checked against the state the
\* previous block left
InCheck == phase = "process" /\ ci = 0

Accepted == { checked_ops[i] : i \in 1..Len(checked_ops) }

\* the operation as db_parse returned it, by vtxindex
Parsed(vtxindex) == The({ o \in { ops[i] : i \in 1..Len(ops) } : o.vtxindex = vtxindex })

\* C1: no owner script ever owns more than MAX_NAMES_PER_SENDER active
\* names, also when several NAME_TRANSFERs to one recipient land in the same
\* block or in successive blocks.
C1_OwnerQuota ==
    \A script \in SCRIPTS :
        Cardinality(get_names_owned_by_sender(script)) <= MAX_NAMES_PER_SENDER

C3_TransferPreconditions ==
    InCheck =>
       \A a \in Accepted :
          is_transfer(a) =>
             LET o == Parsed(a.vtxindex)
             IN  /\ is_name_owner(a.name, o.sender)
                 /\ a.name \notin get_names_owned_by_sender(o.recipient)
                 /\ Cardinality(get_names_owned_by_sender(o.recipient))
                       < MAX_NAMES_PER_SENDER

\* a transfer to a recipient one name short of the quota is accepted
C3_Witness ==
    /\ InCheck
    /\ \E a \in Accepted :
          /\ is_transfer(a)
          /\ Cardinality(get_names_owned_by_sender(Parsed(a.vtxindex).recipient))
                = MAX_NAMES_PER_SENDER - 1

\* the next step commits an accepted NAME_TRANSFER
CommitsTransfer ==
    /\ phase = "process"
    /\ queue = << >>
    /\ ci < Len(checked_ops)
    /\ ci' = ci + 1
    /\ is_transfer(checked_ops[ci + 1])

\* C4: once an accepted NAME_TRANSFER is committed the name's owner script
\* and address are the recipient's and its sender_pubkey is cleared; its
\* value_hash is null when the disposition was '~' and the value_hash of the
\* record before the transfer when it was '>'.
C4_TransferEffect ==
    [][ CommitsTransfer =>
          LET a   == checked_ops[ci + 1]
              tx  == txs[a.vtxindex]
              to  == get_transfer_recipient_from_outputs(tx.outputs)
              old == name_records[a.name]
              new == name_records'[a.name]
          IN  /\ new.sender = The(to)
              /\ new.address = script_hex_to_address(The(to))
              /\ new.sender_pubkey = None
              /\ tx.payload.disposition = TRANSFER_REMOVE_DATA
                    => new.value_hash = None
              /\ tx.payload.disposition = TRANSFER_KEEP_DATA
                    => new.value_hash = old.value_hash ]_vars

\* alice was transferred with '>' and kept her value, bob with '~' and lost his
C4_Witness ==
    /\ name_records[alice].sender = R
    /\ name_records[alice].value_hash = "value_alice"
    /\ name_records[alice].sender_pubkey = None
    /\ name_records[bob].sender = R
    /\ name_records[bob].value_hash = None

\* C9: a NAME_PREORDER or NAME_TRANSFER is accepted in block B only if the
\* consensus hash it carries is one the engine stored for a past block of the
\* window ending at B.
C9_ConsensusHashKnown ==
    InCheck =>
       \A a \in Accepted :
          (a.op = NAME_PREORDER \/ is_transfer(a)) =>
             \E b \in (block - max_preorder_age)..(block - 1) :
                /\ b \in DOMAIN consensus_hashes
                /\ consensus_hashes[b] = txs[a.vtxindex].payload.consensus_hash

\* in a block after the first, a preorder and a transfer are accepted with
\* the hash the engine stored for the block before
C9_Witness ==
    /\ InCheck
    /\ block > StartBlock
    /\ \E a \in Accepted : a.op = NAME_PREORDER
    /\ \E a \in Accepted : is_transfer(a)

\* the first output of a transaction that pays the burn address, 0 for none
FirstBurn(outputs) ==
    LET burns == { i \in 1..Len(outputs) :
                     /\ ~outputs[i].op_return
                     /\ outputs[i].addresses[1] = BLOCKSTORE_BURN_ADDRESS }
    IN  IF burns = {} THEN 0
        ELSE CHOOSE i \in burns : \A j \in burns : i <= j

\* C10: a NAME_PREORDER whose transaction has no burn output carries no
\* op_fee and is never accepted; otherwise its op_fee is the value of the
\* first output that is not an OP_RETURN and whose first address is the burn
\* address.
C10_BurnFee ==
    \A i \in 1..Len(ops) :
       ops[i].op = NAME_PREORDER =>
          LET outputs == txs[ops[i].vtxindex].outputs
              first   == FirstBurn(outputs)
          IN  IF first = 0
              THEN /\ "op_fee" \notin DOMAIN ops[i]
                   /\ \A a \in Accepted : a.vtxindex # ops[i].vtxindex
              ELSE /\ "op_fee" \in DOMAIN ops[i]
                   /\ ops[i].op_fee = outputs[first].value * SATOSHIS_PER_BTC

\* a preorder with two burn outputs is accepted with the fee of the first,
\* and a preorder of the same block without a burn output is rejected
C10_Witness ==
    /\ phase = "process"
    /\ queue = << >>
    /\ \E a \in Accepted :
          /\ a.op = NAME_PREORDER
          /\ Len(txs[a.vtxindex].outputs) = 4
          /\ a.op_fee = 2 * SATOSHIS_PER_BTC
    /\ \E i \in 1..Len(ops) :
          /\ ops[i].op = NAME_PREORDER
          /\ FirstBurn(txs[ops[i].vtxindex].outputs) = 0
          /\ \A a \in Accepted : a.vtxindex # ops[i].vtxindex

\* C11: a NAME_PREORDER is accepted only if its sender owns fewer than
\* MAX_NAMES_PER_SENDER (25) names in the state it is checked against; the
\* sender's pending preorders, of earlier blocks or accepted earlier in the
\* block, count as zero.
C11_PreorderQuota ==
    InCheck =>
       \A a \in Accepted :
          a.op = NAME_PREORDER =>
             Cardinality({ n \in DOMAIN name_records :
                             /\ name_records[n].sender = a.sender
                             /\ ~name_records[n].revoked
                             /\ ~is_name_expired(n, block - 1) })
                < MAX_NAMES_PER_SENDER

\* R owns 24 names and has a preorder pending, and its next preorder is
\* accepted
C11_Witness ==
    /\ InCheck
    /\ \E a \in Accepted :
          /\ a.op = NAME_PREORDER
          /\ a.sender = R
          /\ Cardinality(get_names_owned_by_sender(R)) = MAX_NAMES_PER_SENDER - 1
          /\ \E p \in preorders : p.sender = R /\ p.preorder_hash # a.preorder_hash

\* the opcode class of an operation or of the record of its commit; an
\* accepted NAME_TRANSFER carries its disposition after the opcode
OpClass(o) == IF is_transfer(o) THEN ">" ELSE o.op

\* the position of the operation's opcode in the canonical order
CanonicalRank(o) ==
    LET order == << "?", "~", ":", "+", ">", ";", "*", "&", "!", "#" >>
    IN  CHOOSE i \in 1..Len(order) : order[i] = OpClass(o)

\* o comes before p: an earlier opcode, or the same opcode and a lower vtxindex
Before(o, p) ==
    \/ CanonicalRank(o) < CanonicalRank(p)
    \/ CanonicalRank(o) = CanonicalRank(p) /\ o.vtxindex < p.vtxindex

InCanonicalOrder(seq) ==
    \A i \in 1..Len(seq) : \A j \in 1..Len(seq) : i < j => Before(seq[i], seq[j])

\* the records of the operations committed so far in the block
Committed == SubSeq(stream, 1, ci)

C13_SavedBeforeNextBlock ==
    phase = "parse" =>
       saved = << name_records, preorders, namespace_preorders, namespaces >>

\* a is before b in the order of strings: a is a proper prefix of b, or at the
\* first place where they differ a has the character of the lower code
LexLess(a, b) ==
    \E k \in 1..(Len(b)) :
       /\ \A i \in 1..(k - 1) : i <= Len(a) /\ a[i] = b[i]
       /\ \/ k = Len(a) + 1
          \/ k <= Len(a) /\ ord(a[k]) < ord(b[k])

\* the field is "<count>:<items sorted and comma-joined>" for a set of items:
\* there is one such field, the strictly ascending list of the set
IsExpirationField(field, set, Str(_)) ==
    /\ field.count = Cardinality(set)
    /\ Len(field.items) = field.count
    /\ { field.items[i] : i \in 1..Len(field.items) } = set
    /\ \A i \in 1..(Len(field.items) - 1) :
          LexLess(Str(field.items[i]), Str(field.items[i + 1]))

Identity(x) == x

\* the next step is the final commit of the block
Expires == phase = "process" /\ phase' = "snapshot"

\* C14: the VIRTUAL_EXPIRE record of a block is a function of the records
\* that expired: each field is the count and the lexicographically sorted,
\* comma-joined items, in whatever order the database returned them, and the
\* names removed with an expired namespace reveal are among expired_names.
C14_VirtualExpire ==
    [][ Expires =>
          LET record == stream'[Len(stream')]
              gone_names == (DOMAIN name_records) \ (DOMAIN name_records')
              gone_ids == (DOMAIN namespaces) \ (DOMAIN namespaces')
          IN  /\ Len(stream') = Len(stream) + 1
              /\ record.opcode = "VIRTUAL_EXPIRE"
              /\ \A n \in DOMAIN name_records :
                    get_namespace_from_name(n) \in gone_ids => n \in gone_names
              /\ IsExpirationField(record.expired_names, gone_names, name_str)
              /\ IsExpirationField(record.expired_name_hashes,
                                   { p.preorder_hash : p \in preorders \ preorders' },
                                   name_hash_str)
              /\ IsExpirationField(record.expired_namespace_hashes,
                                   { p.preorder_hash :
                                       p \in namespace_preorders \ namespace_preorders' },
                                   namespace_hash_str)
              /\ IsExpirationField(record.expired_namespace_ids, gone_ids, Identity)
      ]_vars

\* a block expired two stale names of "test", the revealed namespaces "shop"
\* and "apps" with their three imported names, two name preorders and two
\* namespace preorders; expired_names lists ale.shop, amy.test, box.apps,
\* tea.shop, zed.test
C14_Witness ==
    /\ phase = "snapshot"
    /\ LET record == stream[Len(stream)]
       IN  /\ record.expired_names = [ count |-> 5,
                                        items |-> << ale, amy, box, tea, zed >> ]
           /\ record.expired_name_hashes.count = 2
           /\ record.expired_namespace_hashes.count = 2
           /\ record.expired_namespace_ids = [ count |-> 2, items |-> << apps, shop >> ]

\* the payload has an opcode the parser does not know, or is shorter than the
\* minimum of its opcode, or is a NAME_PREORDER of other than 36 bytes
Malformed(tx) ==
    \/ tx.opcode \notin { "?", ":", "+", ">", "~", ";", "*", "&", "!" }
    \/ tx.opcode = "?" /\ tx.payload.len # 36
    \/ tx.opcode = ">" /\ tx.payload.len < 32
    \/ tx.opcode = "*" /\ tx.payload.len < 36
    \/ tx.opcode = "&" /\ tx.payload.len < 18
    \/ tx.opcode = "!" /\ tx.payload.len < 2

\* the vtxindex of the operations and records of a list
Indexes(seq) ==
    { seq[i].vtxindex : i \in { j \in 1..Len(seq) : "vtxindex" \in DOMAIN seq[j] } }

\* C16: a payload with an unrecognized opcode, or shorter than the minimum
\* length of its opcode, or a NAME_PREORDER payload of other than 36 bytes
\* parses to no operation: db_parse returns None, and no operation of that
\* transaction is queued, checked, accepted or committed.
C16_MalformedDropped ==
    \A i \in 1..Len(txs) :
       Malformed(txs[i]) =>
          /\ db_parse(block, txs[i].opcode, txs[i].payload, txs[i].senders,
                      txs[i].inputs, txs[i].outputs) = {}
          /\ i \notin Indexes(ops) \cup Indexes(queue) \cup Indexes(checked_ops)
          /\ phase # "parse" => i \notin Indexes(stream)

\* a block carried a NAME_PREORDER of 37 bytes and then a well-formed
\* NAME_TRANSFER: only the transfer became an operation and was committed
C16_Witness ==
    /\ phase = "snapshot"
    /\ Len(txs) = 2
    /\ txs[1].opcode = NAME_PREORDER /\ txs[1].payload.len = 37
    /\ txs[2].opcode = NAME_TRANSFER
    /\ Indexes(ops) = { 2 }
    /\ Indexes(checked_ops) = { 2 }
    /\ Indexes(stream) = { 2 }

\* the payload is disposition(1) | name_hash128(16) | consensus_hash(16) with
\* a disposition of '>' or '~'
WellFormedTransfer(payload) ==
    /\ payload.len = 1 + 16 + 16
    /\ payload.disposition \in { ">", "~" }

\* C17: every NAME_TRANSFER payload that parses, with the parser of
\* blockstack/lib/operations/transfer.py or with the parser of
\* blockstore/lib/operations/transfer.py, has one disposition byte in
\* {'>', '~'}, a 16-byte name hash and a 16-byte consensus hash; a payload of
\* another length or with another disposition is rejected.
C17_TransferParse ==
    \A i \in 1..Len(txs) :
       txs[i].opcode = NAME_TRANSFER =>
          LET to == get_transfer_recipient_from_outputs(txs[i].outputs)
          IN  /\ parse_transfer(txs[i].payload, The(to)) # {}
                    => WellFormedTransfer(txs[i].payload)
              /\ blockstore_parse_transfer(txs[i].payload, The(to)) # {}
                    => WellFormedTransfer(txs[i].payload)

\* the names of the fields of the records, in sorted order
SORTED_FIELD_NAMES ==
    << "address", "base", "block_number", "buckets", "coeff", "consensus_hash",
       "expired_name_hashes", "expired_names", "expired_namespace_hashes",
       "expired_namespace_ids", "lifetime", "name", "namespace_id",
       "no_vowel_discount", "nonalpha_discount", "op", "op_fee", "preorder_hash",
       "ready_block", "recipient", "recipient_address", "reveal_block", "sender",
       "sender_pubkey", "value_hash", "version", "vtxindex" >>

\* opcode_char + ':' + the values of the fields, in sorted field-name order,
\* joined by commas: the opcode and the list of the joined values
Rendering(op, nameop, fields) ==
    LET sorted == SelectSeq(SORTED_FIELD_NAMES, LAMBDA f : f \in fields)
    IN  [ op |-> op, values |-> [ i \in 1..Len(sorted) |-> nameop[sorted[i]] ] ]

\* the opcode character the driver hands to db_serialize with a record
SerializedOp(nameop) ==
    IF "op" \in DOMAIN nameop THEN OpClass(nameop) ELSE "VIRTUAL_EXPIRE"

\* C15: db_serialize renders a committed operation as the opcode character,
\* ':' and the values of the opcode's consensus fields in sorted field-name
\* order, joined by commas; for VIRTUAL_EXPIRE it uses the four expiration
\* fields; it returns None for an opcode without a name or a field list.
C15_Serialize ==
    /\ \A i \in 1..Len(stream) :
          LET nameop == stream[i]
              op == SerializedOp(nameop)
          IN  db_serialize(op, nameop) =
                 IF "opcode" \in DOMAIN nameop
                 THEN { Rendering(op, nameop,
                                  { "expired_names", "expired_name_hashes",
                                    "expired_namespace_hashes",
                                    "expired_namespace_ids" }) }
                 ELSE { Rendering(op, nameop, SERIALIZE_FIELDS[OPCODE_NAMES[op]]) }
    /\ \A i \in 1..Len(stream) :
          "op" \in DOMAIN stream[i] =>
             /\ db_serialize("x", stream[i]) = {}
             /\ db_serialize(NAME_UPDATE, stream[i]) = {}

\* the operation parsed out of the script built at position i, {} for none
ParsedAt(i) == { ops[k] : k \in { j \in 1..Len(ops) : ops[j].vtxindex = i } }

IsHexOf(s, numbytes) == Len(s) = 2 * numbytes /\ is_hex(s)

ValidName(name) ==
    /\ is_b40(name_str(name))
    /\ ~Contains(name_str(name), "+")
    /\ ~Contains(name[1], ".") /\ ~Contains(name[2], ".")

\* a preorder that fits the wire format: a name that fits behind its scheme
\* or a hash of 20 bytes, and a consensus hash of 16 bytes
ValidPreorder(a) ==
    /\ IsHexOf(a.consensus_hash, LENGTHS.consensus_hash)
    /\ IF a.name_hash = {}
       THEN ValidName(a.name)
            /\ Len(NAME_SCHEME) + Len(name_str(a.name)) <= LENGTHS.blockchain_id_name
       ELSE \A h \in a.name_hash : IsHexOf(h, LENGTHS.preorder_name_hash)

ValidTransfer(a) ==
    /\ IsHexOf(a.consensus_hash, LENGTHS.consensus_hash)
    /\ ValidName(a.name)
    /\ Len(name_str(a.name)) <= LENGTHS.blockchain_id_name

BuiltPreorderHash(a) ==
    IF a.name_hash = {}
    THEN hash_name_hex(a.name, a.script_pubkey, a.register_addr)
    ELSE The(a.name_hash)

\* C18: the operation parsed out of the script built for a valid
\* NAME_PREORDER (from a name, or from a record's preorder hash as
\* restore_delta does) has the preorder hash and the consensus hash that were
\* built, and the one parsed out of the script built for a valid
\* NAME_TRANSFER has the hash of the name, the keep-data disposition and the
\* consensus hash that were built.
C18_RoundTrip ==
    \A i \in 1..Len(txs) :
        /\ (txs[i].opcode = NAME_PREORDER /\ ValidPreorder(txs[i].args))
              => \E o \in ParsedAt(i) :
                    /\ o.opcode = "NAME_PREORDER"
                    /\ o.preorder_hash = BuiltPreorderHash(txs[i].args)
                    /\ o.consensus_hash = txs[i].args.consensus_hash
        /\ (txs[i].opcode = NAME_TRANSFER /\ ValidTransfer(txs[i].args))
              => \E o \in ParsedAt(i) :
                    /\ o.opcode = "NAME_TRANSFER"
                    /\ o.name_hash128 = hash256_trunc128_hex(txs[i].args.name)
                    /\ o.keep_data = txs[i].args.keepdata
                    /\ o.consensus_hash = txs[i].args.consensus_hash

\* a preorder restored from a record's hash and a transfer that removes the
\* data were built and parsed
C18_Witness ==
    /\ Len(txs) = 2 /\ Len(ops) = 2
    /\ txs[1].opcode = NAME_PREORDER /\ txs[1].args.name_hash # {}
    /\ ValidPreorder(txs[1].args)
    /\ txs[2].opcode = NAME_TRANSFER /\ ~txs[2].args.keepdata
    /\ ValidTransfer(txs[2].args)
    /\ ops[2].keep_data = FALSE

ValidNamespaceId(namespace_id) ==
    /\ is_b40(namespace_id)
    /\ ~Contains(namespace_id, "+") /\ ~Contains(namespace_id, ".")
    /\ Len(namespace_id) >= 1
    /\ Len(namespace_id) <= LENGTHS.blockchain_id_namespace_id

\* a reveal that fits the wire format: every number within the bytes or the
\* nibble it is written in
ValidReveal(a) ==
    /\ ValidNamespaceId(a.namespace_id)
    /\ a.version \in 0..65535
    /\ a.lifetime \in 0..MaxLifetime
    /\ a.coeff \in 0..255 /\ a.base \in 0..255
    /\ Len(a.bucket_exponents) = 16
    /\ \A i \in 1..Len(a.bucket_exponents) : a.bucket_exponents[i] \in 0..15
    /\ a.nonalpha_discount \in 1..15 /\ a.no_vowel_discount \in 1..15

\* C19: the operation parsed out of the script built for a valid
\* NAMESPACE_REVEAL has the lifetime, coeff, base, 16 bucket exponents, two
\* discounts, version and namespace id that were built, and the one parsed
\* out of the script built for a valid NAMESPACE_READY has the namespace id
\* that was built.
C19_NamespaceRoundTrip ==
    \A i \in 1..Len(txs) :
        /\ (txs[i].opcode = NAMESPACE_REVEAL /\ ValidReveal(txs[i].args))
              => \E o \in ParsedAt(i) :
                    /\ o.opcode = "NAMESPACE_REVEAL"
                    /\ o.lifetime = txs[i].args.lifetime
                    /\ o.coeff = txs[i].args.coeff
                    /\ o.base = txs[i].args.base
                    /\ Len(o.buckets) = 16
                    /\ o.buckets = txs[i].args.bucket_exponents
                    /\ o.nonalpha_discount = txs[i].args.nonalpha_discount
                    /\ o.no_vowel_discount = txs[i].args.no_vowel_discount
                    /\ o.version = txs[i].args.version
                    /\ o.namespace_id = txs[i].args.namespace_id
        /\ (txs[i].opcode = NAMESPACE_READY
            /\ ValidNamespaceId(txs[i].args.namespace_id))
              => \E o \in ParsedAt(i) :
                    /\ o.opcode = "NAMESPACE_READY"
                    /\ o.namespace_id = txs[i].args.namespace_id

\* the longest namespace id was revealed with the largest lifetime and
\* version and unequal discounts, and a namespace id was made ready, and
\* both were parsed
C19_Witness ==
    /\ Len(txs) = 2 /\ Len(ops) = 2
    /\ txs[1].opcode = NAMESPACE_REVEAL /\ ValidReveal(txs[1].args)
    /\ txs[1].args.namespace_id = longest_id
    /\ txs[1].args.lifetime = MaxLifetime /\ txs[1].args.version = 65535
    /\ ops[1].lifetime = MaxLifetime
    /\ txs[2].opcode = NAMESPACE_READY /\ ops[2].namespace_id = apps

\* C20: every namespace record that is revealed or ready has coeff and base
\* in 0..255, exactly 16 bucket exponents each in 0..15, both discounts in
\* 1..15, a namespace id of 1 to 19 base-40 characters without '.' and '+',
\* and the version of the implementation.
C20_NamespaceWellFormed ==
    \A id \in DOMAIN namespaces :
        LET ns == namespaces[id]
        IN  ns.op \in { NAMESPACE_REVEAL, NAMESPACE_READY } =>
              /\ ns.coeff \in 0..255 /\ ns.base \in 0..255
              /\ Len(ns.buckets) = 16
              /\ \A i \in 1..Len(ns.buckets) : ns.buckets[i] \in 0..15
              /\ ns.nonalpha_discount \in 1..15
              /\ ns.no_vowel_discount \in 1..15
              /\ Len(ns.namespace_id) \in 1..19
              /\ \A i \in 1..Len(ns.namespace_id) :
                    ns.namespace_id[i] \in B40_CHARS \ { ".", "+" }
              /\ ns.version = BLOCKSTACK_VERSION

\* a block carried a reveal of apps with a discount of 0 and a well-formed
\* one, and apps is revealed
C20_Witness ==
    /\ apps \in DOMAIN namespaces
    /\ namespaces[apps].op = NAMESPACE_REVEAL
    /\ \E i \in 1..Len(txs) :
          /\ txs[i].opcode = NAMESPACE_REVEAL
          /\ txs[i].payload.namespace_id = apps
          /\ txs[i].payload.no_vowel_discount = 0

\* C5: a NAMESPACE_REVEAL is accepted only if an unexpired namespace
\* preorder with its hash exists and was sent by the sender of the reveal.
C5_RevealBySamePreorderer ==
    InCheck =>
       \A a \in Accepted :
          a.op = NAMESPACE_REVEAL =>
             \E p \in namespace_preorders :
                /\ p.preorder_hash = a.preorder_hash
                /\ block < p.block_number + NAMESPACE_PREORDER_EXPIRE + 1
                /\ p.sender = a.sender

\* the next step commits an accepted NAMESPACE_REVEAL
CommitsReveal ==
    /\ phase = "process"
    /\ queue = << >>
    /\ ci < Len(checked_ops)
    /\ ci' = ci + 1
    /\ checked_ops[ci + 1].op = NAMESPACE_REVEAL

\* C6: a namespace reaches REVEALED only if the preorder its reveal consumes
\* recorded an op_fee of at least price_namespace(namespace_id).
C6_RevealPaid ==
    [][ \A id \in DOMAIN namespaces' :
          (/\ namespaces'[id].op = NAMESPACE_REVEAL
           /\ ~is_namespace_revealed(id))
          => \E p \in namespace_preorders :
                /\ p.preorder_hash = namespaces'[id].preorder_hash
                /\ p \notin namespace_preorders'
                /\ "op_fee" \in DOMAIN p
                /\ p.op_fee >= price_namespace(id) ]_vars

\* on the main net, where a four-letter namespace costs 4 BTC, "apps" is
\* revealed from a preorder that burnt 4 BTC
C6_Witness ==
    /\ ~testset
    /\ is_namespace_revealed(apps)
    /\ namespaces[apps].op_fee = NAMESPACE_4567_CHAR_COST

\* C7: a NAMESPACE_READY is accepted only if the namespace is revealed and
\* not ready and the sender is the recipient of its reveal.
C7_ReadyByRevealer ==
    InCheck =>
       \A a \in Accepted :
          a.op = NAMESPACE_READY =>
             /\ a.namespace_id \in DOMAIN namespaces
             /\ namespaces[a.namespace_id].op = NAMESPACE_REVEAL
             /\ namespaces[a.namespace_id].recipient
                   = txs[a.vtxindex].senders[1].script_pubkey

\* the recipient of the reveal of "apps" readies it
C7_Witness ==
    /\ InCheck
    /\ \E a \in Accepted :
          /\ a.op = NAMESPACE_READY
          /\ a.namespace_id = apps
          /\ txs[a.vtxindex].senders[1].script_pubkey = R

\* C8: the lifecycle of a namespace only advances: a namespace that is
\* REVEALED or READY is not revealed again, a namespace becomes READY only
\* from REVEALED, and a READY namespace stays READY.
C8_LifecycleAdvances ==
    [][ /\ \A id \in DOMAIN namespaces :
             /\ is_namespace_ready(id) =>
                   id \in DOMAIN namespaces' /\ namespaces'[id] = namespaces[id]
             /\ (is_namespace_revealed(id) /\ id \in DOMAIN namespaces') =>
                   \/ namespaces'[id] = namespaces[id]
                   \/ namespaces'[id].op = NAMESPACE_READY
        /\ \A id \in DOMAIN namespaces' :
             /\ (namespaces'[id].op = NAMESPACE_READY /\ ~is_namespace_ready(id))
                   => is_namespace_revealed(id)
             /\ namespaces'[id].op = NAMESPACE_REVEAL
                   => (id \notin DOMAIN namespaces \/ namespaces'[id] = namespaces[id])
      ]_vars

\* "apps" went through preorder, reveal and ready, and a later attempt to
\* reveal the READY namespace "test" was rejected
C8_Witness ==
    /\ is_namespace_ready(apps)
    /\ is_namespace_ready(test)
    /\ phase = "snapshot"
    /\ \E i \in 1..Len(ops) :
          ops[i].op = NAMESPACE_REVEAL /\ ops[i].namespace_id = test

\* the calls made of one library function
CallsOf(fn) == { calls[i] : i \in { j \in 1..Len(calls) : calls[j].fn = fn } }

\* a text the validators can refuse for its length only
CleanName(name) == is_b40(name) /\ ~Contains(name, "+") /\ count(name, ".") <= 1

\* a clean text with a name and a namespace in it
CleanFqn(fqn) ==
    /\ CleanName(fqn)
    /\ count(fqn, ".") = 1
    /\ fqn[1] # "." /\ fqn[Len(fqn)] # "."

\* C21: is_name_valid, the transfer sanity check and the preorder builder
\* apply the same length bound: each accepts a name that is otherwise well
\* formed exactly when it is 1 to 37 characters long
C21_SameLengthBound ==
    /\ \A c \in CallsOf("is_name_valid") :
           CleanFqn(c.args) => (c.ret <=> Len(c.args) \in 1..LENGTHS.blockchain_id_name)
    /\ \A c \in CallsOf("transfer_sanity_check") \cup CallsOf("preorder_name_check") :
           CleanName(c.args) => (c.ret <=> Len(c.args) \in 1..LENGTHS.blockchain_id_name)

\* the bucket and the discount of a name as the price rule has them
PriceBucket(name, namespace) ==
    namespace.buckets[Min(Len(name) - 1, 15) + 1]

PriceDiscount(name, namespace) ==
    LET no_vowel == \A i \in 1..Len(name) :
                        name[i] \notin { "a", "e", "i", "o", "u", "y" }
        nonalpha == \E i \in 1..Len(name) :
                        name[i] \in { "0", "1", "2", "3", "4", "5", "6", "7", "8",
                                      "9", "-", "_" }
    IN  max(max(1, IF no_vowel THEN namespace.no_vowel_discount ELSE 1),
            IF nonalpha THEN namespace.nonalpha_discount ELSE 1)

\* C22: the price of a name is the larger of NAME_COST_UNIT and
\* floor(coeff * base^bucket / discount) * NAME_COST_UNIT
C22_PriceFormula ==
    \A c \in CallsOf("price_name") :
        LET name == c.args[1]
            namespace == c.args[2]
            whole == (namespace.coeff * (namespace.base ^ PriceBucket(name, namespace)))
                     \div PriceDiscount(name, namespace)
        IN  Len(name) >= 1 => c.ret = max(NAME_COST_UNIT, whole * NAME_COST_UNIT)

\* what price_name computes: the quotient is not floored before it is
\* scaled, and the scaled quotient is cut, never more than one below
\* 100 * coeff * base^bucket / discount floored
C22_PriceWithinOne ==
    \A c \in CallsOf("price_name") :
        LET name == c.args[1]
            namespace == c.args[2]
            scaled == (NAME_COST_UNIT * namespace.coeff
                         * (namespace.base ^ PriceBucket(name, namespace)))
                      \div PriceDiscount(name, namespace)
        IN  Len(name) >= 1 =>
                c.ret \in { max(NAME_COST_UNIT, scaled), max(NAME_COST_UNIT, scaled - 1) }

\* a price_name call whose exact price is a whole number the floats miss
C22_Inexact ==
    \E c \in CallsOf("price_name") :
        LET name == c.args[1]
            namespace == c.args[2]
            exact == NAME_COST_UNIT * namespace.coeff
                       * (namespace.base ^ PriceBucket(name, namespace))
        IN  /\ Len(name) >= 1
            /\ exact % PriceDiscount(name, namespace) = 0
            /\ c.ret = (exact \div PriceDiscount(name, namespace)) - 1

\* the price tier of a namespace id, by its length
Tier(namespace_id) ==
    IF Len(namespace_id) = 1 THEN 40000
    ELSE IF Len(namespace_id) \in 2..3 THEN 4000
    ELSE IF Len(namespace_id) \in 4..7 THEN 400
    ELSE 40

\* a number of satoshis in the units namespace prices are kept in here:
\* 10^4 satoshi
Satoshis(n) == n \div 10000

\* C23 as stated: the price of a namespace is 40000, 4000, 400 or 40 units by
\* the length of its id on mainnet and 10000 of the same units on the testset
C23_PriceInUnits ==
    \A c \in CallsOf("price_namespace") :
        c.ret = (IF c.testset THEN 10000 ELSE Tier(c.args)) * Satoshis(1000000)

\* C23: the price of a namespace depends on the length of its id and on the
\* testset flag only: 40000, 4000, 400 or 40 units of 10^6 satoshi on mainnet
\* and 10000 satoshi on the testset
C23_PriceByLength ==
    \A c \in CallsOf("price_namespace") :
        c.ret = IF c.testset THEN Satoshis(10000)
                ELSE Tier(c.args) * Satoshis(1000000)

C23_Witness ==
    \E c \in CallsOf("price_namespace") :
        /\ c.testset
        /\ Len(c.args) >= 8
        /\ c.ret = Satoshis(10000)

\* C24: the indexing flag is present exactly while a pass is in progress:
\* set before sync_blockchain starts, present throughout the pass, and
\* absent once the pass has ended, by returning or by an exception
C24_FlagDuringPass ==
    \A p \in PIDS :
        /\ proc[p].pc \in { "load", "sync", "unflag" } => is_indexing
        /\ proc[p].pc \in { "sleep", "fatal" } => ~is_indexing

\* C25: while the indexing flag is set every query that reads the database
\* answers with the error "Indexing blockchain"
C25_QueriesRefused ==
    \A i \in 1..Len(calls) :
        calls[i].indexing => calls[i].ret = Error(INDEXING_ERROR)

\* C26: whatever the interleaving of the starts and stops, at most one
\* process is in the indexing loop
C26_OneIndexer == Cardinality({ p \in PIDS : InLoop(p) }) <= 1

\* C27: a pass that raises ends the server with status 1 and no further
\* pass, and the next pass of a later start begins from the state that was
\* saved, at the block after the last one on record
C27_FatalExit ==
    [][ \A p \in PIDS :
          /\ proc[p].pc = "sync" =>
                \/ proc'[p].pc \in { "sync", "unflag", "atexit", "exited" }
                \/ proc'[p].pc = "fatal" /\ proc'[p].status = { 1 }
          /\ proc[p].pc = "fatal" =>
                /\ proc'[p].pc \in { "fatal", "exited" }
                /\ proc'[p].status = { 1 }
          /\ proc[p].pc = "load" /\ proc'[p].pc = "sync" =>
                /\ << name_records', preorders', namespace_preorders',
                      namespaces' >> = saved
                /\ block' = block /\ phase' = "parse" /\ vtx' = 0
      ]_vars

\* a pass has failed after a block was completed, with changes in memory
\* that were never saved
C27_Witness ==
    /\ proc[1].pc = "fatal"
    /\ block > StartBlock
    /\ << name_records, preorders, namespace_preorders, namespaces >> # saved

\* a second run of the server is indexing again after the first one failed
\* past a completed block
C27_Resumed ==
    /\ proc[1].pc = "sync" /\ proc[1].run = 2 /\ proc[1].prev = { 1 }
    /\ block > StartBlock

\* C30: the first wait of get_index_range is one second, no wait is longer
\* than 300 seconds, and every later wait is 300 seconds or between two and
\* three times the wait before it
C30_Backoff ==
    \A p \in PIDS :
        LET waits == proc[p].waits
        IN  \A i \in 1..Len(waits) :
                /\ waits[i] <= MAX_DELAY
                /\ i = 1 => waits[i] = INITIAL_DELAY
                /\ i > 1 => \/ waits[i] = MAX_DELAY
                            \/ /\ 2 * waits[i - 1] <= waits[i]
                               /\ waits[i] <= 3 * waits[i - 1]

\* the server has waited 300 seconds after shorter waits
C30_Witness ==
    \E p \in PIDS :
        LET waits == proc[p].waits
        IN  /\ Len(waits) >= 3
            /\ waits[Len(waits)] = MAX_DELAY
            /\ waits[Len(waits) - 1] < MAX_DELAY

\* get_index_range has returned to index_blockchain with a range
GotRange(p) == proc[p].pc = "flag" /\ proc[p].range # {}

\* C31: a chain client out of reach never aborts indexing: get_index_range
\* only returns with a range, never with (None, None); it polls again for as
\* long as the client does not answer and returns on the poll the client
\* answers; and a call that is under way does return.
C31_NeverAborts ==
    /\ [][\A p \in PIDS :
            proc[p].pc = "range" =>
                IF outage > 0
                THEN proc'[p].pc = "range" /\ proc'[p].range = {}
                ELSE proc'[p].pc = "range" \/ GotRange(p)']_vars
    /\ \A p \in PIDS : (proc[p].pc = "range") ~> GotRange(p)

\* get_index_range has returned a range after polls that failed
C31_Witness ==
    \E p \in PIDS : GotRange(p) /\ Len(proc[p].waits) >= 2 /\ outage = 0

\* C32: no block with fewer than NUM_CONFIRMATIONS confirmations is indexed:
\* the range get_index_range returns ends NUM_CONFIRMATIONS below the chain
\* tip of that moment, and the pass processes the blocks up to there and
\* none after.
C32_Confirmations ==
    /\ [](\A p \in PIDS :
           proc[p].range # {} => current_block(p) <= tip - NUM_CONFIRMATIONS)
    /\ [](lastblock <= tip - NUM_CONFIRMATIONS)
    /\ []((phase # "parse" \/ vtx > 0) => block <= tip - NUM_CONFIRMATIONS)
    /\ [](\A p \in PIDS :
           proc[p].pc = "unflag" => lastblock = current_block(p))
    /\ [][\A p \in PIDS :
            (proc[p].pc = "range" /\ proc'[p].pc = "flag")
                => proc'[p].range = { << FirstBlock, tip - NUM_CONFIRMATIONS >> }]_vars

\* a pass has ended at its last block while bitcoind knows of a later one
C32_Witness ==
    \E p \in PIDS :
        /\ proc[p].pc = "unflag"
        /\ lastblock = current_block(p)
        /\ lastblock >= StartBlock
        /\ tip - NUM_CONFIRMATIONS > lastblock

\* the step in which a process in the loop of run_server takes the
\* interrupt sent to it
Interrupted(p) == proc[p].sigint /\ InLoop(p) /\ proc'[p].pc = "atexit"

\* C33: an interrupt is honoured only between passes: the step that takes it
\* finds run_server waiting for the next block, and the server returns 0
\* without another pass; and a pass an interrupt reaches has either processed
\* and saved every block up to its last or has saved none.
C33_InterruptBetweenPasses ==
    /\ [][\A p \in PIDS :
            Interrupted(p) => proc[p].pc = "sleep" /\ proc'[p].status = { 0 }]_vars
    /\ [](\A p \in PIDS :
            (proc[p].pc = "atexit" /\ proc[p].began # {})
                => lastblock \in { current_block(p), The(proc[p].began) })

\* an interrupt that finds the server waiting ends it with status 0, and the
\* blocks of the passes before it stay saved
C33_InterruptWhileWaiting ==
    [][\A p \in PIDS :
         (Interrupted(p) /\ proc[p].pc = "sleep")
             => /\ proc'[p].status = { 0 }
                /\ saved' = saved /\ block' = block]_vars

\* an interrupt has ended a pass between two of its blocks
C33_MidPass ==
    \E p \in PIDS :
        /\ proc[p].pc = "atexit" /\ proc[p].began # {}
        /\ proc[p].status = { 1 }
        /\ lastblock > The(proc[p].began)
        /\ lastblock < current_block(p)

\* C40: stop_server sends SIGINT to the process the PID file names; when
\* there is no such process it removes the file and returns; with kill it
\* sends SIGKILL after its sleep, so that the process is not running
\* afterwards; a stop with clean returns with the PID file removed in every
\* case; and a start that finds no PID file is not refused.
C40_StopServer ==
    [][/\ \A clean \in BOOLEAN, kill \in BOOLEAN :
            Stop(clean, kill) =>
                /\ \A pid \in pidfile :
                       IF Exists(pid)
                       THEN /\ proc'[pid].sigint
                            /\ stop'.pc = IF kill THEN "sleep" ELSE "idle"
                       ELSE /\ pidfile' = {}
                            /\ proc' = proc
                            /\ stop'.pc = "idle"
                /\ \A q \in PIDS \ pidfile : proc'[q] = proc[q]
                /\ (clean /\ stop'.pc = "idle") => pidfile' = {}
       /\ StopKill =>
            /\ \A pid \in stop.pid : ~Alive(pid)'
            /\ \A q \in PIDS \ stop.pid : proc'[q] = proc[q]
            /\ stop.clean => pidfile' = {}
            /\ stop'.pc = "idle"
       /\ \A p \in PIDS :
            (Start(p) /\ pidfile = {}) => proc'[p].pc = "starting"
      ]_vars

\* a server that a stop has killed is started again and is not refused
C40_Witness ==
    \E p \in PIDS :
        /\ proc[p].pc = "starting"
        /\ proc[p].prev = { SIGKILLED }
        /\ pidfile = {}
        /\ stop.pc = "idle"

\* C34: a NAME_TRANSFER is accepted only if its name hash is that of a name
\* on record, which is not revoked and is not expired as of the block the
\* state engine stands at (its lastblock), the namespace of the name is
\* READY, and the script of the sender is not that of the recipient.
C34_TransferOfActiveName ==
    InCheck =>
       \A a \in Accepted :
          is_transfer(a) =>
             LET o == Parsed(a.vtxindex)
                 named == { n \in DOMAIN name_records :
                              hash256_trunc128(n) = o.name_hash128 }
             IN  /\ named = { a.name }
                 /\ \A n \in named :
                       LET namespace_id == n[2]
                       IN  /\ ~name_records[n].revoked
                           /\ namespace_id \in DOMAIN namespaces
                           /\ namespaces[namespace_id].op = NAMESPACE_READY
                           /\ name_records[n].last_renewed
                                 + namespaces[namespace_id].lifetime >= lastblock
                 /\ o.sender # o.recipient

\* the transfer of a name in its last block is accepted, and turned down a
\* block later
C34_Witness ==
    /\ InCheck
    /\ \E a \in Accepted :
          /\ is_transfer(a)
          /\ a.name = amy
          /\ name_records[amy].last_renewed + namespaces[test].lifetime = lastblock

\* the transfers of the revoked name, of the imported name, of the name that
\* is not on record and of a name to its owner were all turned down
C34_Rejected ==
    /\ InCheck
    /\ queue = << >>
    /\ Len(ops) = MaxTxs
    /\ Accepted = {}

\* the namespaces a step creates
Revealed == DOMAIN namespaces' \ DOMAIN namespaces

\* C35: the record of a namespace revealed at block B for a preorder accepted
\* at block P has block_number = P and reveal_block = B, the block at which
\* the namespace was revealed.
C35_RevealBlock ==
    [][\A id \in Revealed :
          /\ namespaces'[id].op = NAMESPACE_REVEAL
          /\ namespaces'[id].block_number
                = The(get_namespace_preorder(namespaces'[id].preorder_hash)).block_number
          /\ namespaces'[id].reveal_block = block]_vars

\* what check() writes: block_number is the block of the preorder, and
\* reveal_block is a copy of it
C35_CountsFromPreorder ==
    [][\A id \in Revealed :
          /\ namespaces'[id].op = NAMESPACE_REVEAL
          /\ namespaces'[id].block_number
                = The(get_namespace_preorder(namespaces'[id].preorder_hash)).block_number
          /\ namespaces'[id].reveal_block = namespaces'[id].block_number]_vars

\* a namespace revealed in a block after the one of its preorder
C35_LaterReveal ==
    \E id \in DOMAIN namespaces :
        /\ namespaces[id].op = NAMESPACE_REVEAL
        /\ namespaces[id].vtxindex > 0
        /\ namespaces[id].block_number < lastblock
        /\ namespaces[id].block_number >= StartBlock

\* the names whose record a step rewrites with a transfer
Transferred ==
    { n \in DOMAIN name_records' :
        /\ n \in DOMAIN name_records
        /\ name_records'[n] # name_records[n]
        /\ is_transfer(name_records'[n]) }

\* C36: for a name record last changed by an accepted NAME_TRANSFER,
\* snv_consensus_extras gives back the consensus fields of the operation as
\* it was parsed: the consensus hash the transfer carried (while the record's
\* own consensus_hash is still that of the record before), the keep-data
\* disposition, the hash of the name, and the recipient, who now owns the name.
C36_TransferExtras ==
    [][\A n \in Transferred :
          LET name_rec == name_records'[n]
              o == Parsed(name_rec.vtxindex)
              extras == snv_consensus_extras(name_rec)
          IN  /\ extras # {}
              /\ The(extras).consensus_hash = o.consensus_hash
              /\ The(extras).keep_data = o.keep_data
              /\ The(extras).name_hash128 = o.name_hash128
              /\ The(extras).recipient = o.recipient
              /\ The(extras).recipient_address = o.recipient_address
              /\ name_rec.sender = o.recipient
              /\ name_rec.consensus_hash = name_records[n].consensus_hash]_vars

\* a name transferred with a consensus hash that is neither the latest one
\* nor the one in its record
C36_Witness ==
    /\ phase = "process"
    /\ ci > 0
    /\ is_transfer(name_records[alice])
    /\ name_records[alice].sender = R
    /\ name_records[alice].transfer_send_block_id = block - 2
    /\ name_records[alice].consensus_hash # snapshot(block - 2)

\* the check of an operation, before the decorator looks for collisions
check_body(op, block_id, checked) ==
    IF op.op = NAME_TRANSFER THEN transfer_check(op, block_id, checked)
    ELSE IF op.op = NAMESPACE_REVEAL THEN namespacereveal_check(op, block_id, checked)
    ELSE namespaceready_check(op, block_id, checked)

\* the operations parsed in this block that were not accepted
Refused(opcode) ==
    { o \in { ops[i] : i \in 1..Len(ops) } :
        /\ o.op = opcode
        /\ \A a \in Accepted : a.vtxindex # o.vtxindex }

\* C37: when the check of a NAME_TRANSFER, NAMESPACE_REVEAL or
\* NAMESPACE_READY returns False, the operation record is the one that was
\* passed in and the engine state is the one before the call: nothing is
\* written on a refusing path.
C37_RefusalWritesNothing ==
    [][(phase = "process" /\ queue # << >> /\ queue' = Tail(queue)
            /\ Head(queue).op \in { NAME_TRANSFER, NAMESPACE_REVEAL, NAMESPACE_READY })
        => LET op == Head(queue)
               result == check_body(op, block, checked_ops)
           IN  ~result.rc =>
                  /\ result.nameop = op
                  /\ checked_ops' = checked_ops
                  /\ UNCHANGED << db_vars, consensus_hashes, saved, ops >>]_vars

\* a block whose NAMESPACE_READY of another sender and whose second
\* NAMESPACE_REVEAL were both turned down
C37_Witness ==
    /\ phase = "process"
    /\ queue = << >>
    /\ Refused(NAMESPACE_READY) # {}
    /\ Refused(NAMESPACE_REVEAL) # {}

\* a block whose NAME_TRANSFER was turned down
C37_TransferRefused ==
    /\ phase = "process"
    /\ queue = << >>
    /\ Refused(NAME_TRANSFER) # {}

\* the replays of a block among the calls
Replays == { calls[i] : i \in { j \in 1..Len(calls) : calls[j].fn = "block_to_virtualchain_ops" } }

\* the records of a list
Records(l) == { l[i] : i \in 1..Len(l) }

\* C38: block_to_virtualchain_ops returns the records of the block that
\* are not expired, in ascending order of vtxindex, and the i-th record of a
\* name in this order is restored at history index i - 1 (0 for a record
\* that has no name).
C38_ReplayOrder ==
    \A c \in Replays :
        LET live == { r \in Records(c.args) : "expired" \notin DOMAIN r }
        IN  /\ \A i, j \in 1..Len(c.ret) : i < j => c.ret[i].vtxindex < c.ret[j].vtxindex
            /\ { o.vtxindex : o \in Records(c.ret) } = { r.vtxindex : r \in live }
            /\ \A o \in Records(c.ret) :
                  LET earlier == { r \in Records(c.args) :
                                     /\ "name" \in DOMAIN r
                                     /\ "name" \in DOMAIN o
                                     /\ r.name = o.name
                                     /\ r.vtxindex < o.vtxindex }
                  IN  o.restored_at = << block, Cardinality(earlier) >>

\* a block where a name was altered twice, after another record, and the
\* database returned the records out of order
C38_Witness ==
    \E c \in Replays :
        /\ Len(c.args) = MaxRecs
        /\ c.args[1].vtxindex > c.args[2].vtxindex
        /\ Len(c.ret) = MaxRecs
        /\ \E o \in Records(c.ret) : o.restored_at[2] = 1

\* the NAMESPACE_REVEAL scripts built for a lifetime below 0 with every other
\* argument in its range
InfiniteReveals ==
    { txs[i] : i \in { j \in 1..Len(txs) :
        /\ txs[j].opcode = NAMESPACE_REVEAL
        /\ txs[j].args.lifetime < 0
        /\ namespacereveal_sanity_check(txs[j].args.namespace_id, txs[j].args.version,
              txs[j].args.lifetime, txs[j].args.coeff, txs[j].args.base,
              txs[j].args.bucket_exponents, txs[j].args.nonalpha_discount,
              txs[j].args.no_vowel_discount) } }

\* C39: a namespace lifetime outside 0..2^32-1, such as the negative value
\* that means "infinite", is put on the wire by the NAMESPACE_REVEAL builder
\* as the sentinel 0xFFFFFFFF.
C39_InfiniteLifetime ==
    \A t \in InfiniteReveals :
        /\ t.script # {}
        /\ \A s \in t.script : life_hex_of(s) = NAMESPACE_LIFE_INFINITE_HEX

\* what the builder does with a negative lifetime: the number is formatted
\* with its sign, and the script that comes out is not hexadecimal
C39_SignOnWire ==
    \A t \in InfiniteReveals :
        /\ t.script # {}
        /\ \A s \in t.script : ~is_hex(s) /\ unhexlify(s) = {}

\* a reveal was built for a negative lifetime
C39_Built == InfiniteReveals # {}

\* a resumed rebuild whose directory names a last block
Resumed == rebuild.resume /\ rebuild.resumed_from # {}

\* C28: a rebuild that is resumed from a lastblock file processes the blocks
\* after the one the file names: the first block it processes is the next
\* block, and no block the directory already holds is processed again.
C28_ResumeFromNext ==
    (Resumed /\ rebuild.applied # << >>)
        => rebuild.applied[1] = The(rebuild.resumed_from) + 1

\* the resumed rebuild still processes ascending, consecutive blocks, one
\* turn of the loop each, up to the target
C28_Ascending ==
    \A i \in 1..Len(rebuild.applied) : rebuild.applied[i] = rebuild.start_block + i - 1

C29_Rejected ==
    /\ rebuild.verify
    /\ rebuild.verified = { FALSE }
    /\ rebuild.untrusted_db # LiveOps
    /\ rebuild.trusted_consensus_hash = replay(LiveOps, rebuild.target_block_id)


====
